---- MODULE Spec2Model ----
(***************************************************************************)
(* USB transport layer of mspdebug: the five transport backends            *)
(* (bslhid, ti3410, cdc_acm, cp210x, ftdi) driven by one caller thread.    *)
(* A process opens exactly one transport, so the backend is fixed in Init. *)
(* Every libusb bulk transfer is a step whose result (return code, number  *)
(* of bytes transferred, bytes delivered) is chosen by the device.         *)
(***************************************************************************)
EXTENDS Integers, Sequences, FiniteSets, TLC

(* ------------------------------------------------------------------ *)
(* Program constants                                                  *)
(* ------------------------------------------------------------------ *)
BSLHID_XFER_SIZE == 64
BSLHID_MTU == BSLHID_XFER_SIZE - 2
BSLHID_HEADER == 63
BSLHID_FILL == 172
FTDI_PACKET_SIZE == 64
READ_BUFFER_SIZE == 1024
FLUSH_BUF_SIZE == 64
CDC_CTRL_DTR == 1
CDC_CTRL_RTS == 2
CP210X_DTR == 1
CP210X_RTS == 2
CP210X_WRITE_DTR == 256
CP210X_WRITE_RTS == 512
FTDI_DTR == 1
FTDI_RTS == 2
FTDI_WRITE_DTR == 256
FTDI_WRITE_RTS == 512
FTDI_SIO_RESET_PURGE_RX == 1
FTDI_SIO_RESET_PURGE_TX == 2
FTDI_SIO_RESET_SIO == 0
FTDI_CLOCK == 3000000
CP210X_CLOCK == 3500000
TI_READ_DEADLINE == 5
CP210X_TIMEOUT_S == 30
FTDI_TIMEOUT_S == 30
FAIL == -1
TI_FIRMWARE_BUF_SIZE == 16284
TI_DOWNLOAD_MAX_PACKET_SIZE == 64
TI_TERMIOS_SIZE == 10
TI_MCR_SIZE == 9
CDC_LINE_CODING_SIZE == 7

(* ------------------------------------------------------------------ *)
(* Bounds of the model                                                *)
(* ------------------------------------------------------------------ *)
MaxSendLen == 64
MaxStreamLen == 3
MaxXfers == 3
MaxTick == 1
MaxQueued == 2
MaxIfaces == 2
MaxHist == 5
MaxChunks == 3

Backends == {"bslhid", "ti3410", "cdc_acm", "cp210x", "ftdi"}

Min(a, b) == IF a < b THEN a ELSE b

(* Caller payloads: position-dependent bytes, so that a skipped or      *)
(* repeated byte changes the sequence.                                 *)
Payload(n, seed) == [i \in 1..n |-> (seed + i) % 256]

HidSendLens == {0, 1, 2, BSLHID_MTU - 1, BSLHID_MTU, BSLHID_MTU + 1, MaxSendLen}
StreamSendLens == 0..MaxStreamLen
SendSeeds == {0, 100}

(* Bytes a device delivers on an inbound transfer of n bytes. *)
InBytes(n) == [i \in 1..n |-> (200 + i) % 256]

(* ------------------------------------------------------------------ *)
(* libusb bulk transfers                                              *)
(* ------------------------------------------------------------------ *)
(* A transfer's result: rc is "OK" (0), "TIMEOUT" (LIBUSB_ERROR_TIMEOUT) *)
(* or "ERR" (any other error), and "PENDING" while it is in flight.    *)
NoXfer == [dir |-> "none", rc |-> "OK", sub |-> <<>>, size |-> 0, n |-> 0, bytes |-> <<>>]

VARIABLES backend, pc, call, inst, handle, leaked, stale, lost, ident, rbuf, rbuf_len, rbuf_ptr, hist

vars == <<backend, pc, call, inst, handle, leaked, stale, lost, ident, rbuf, rbuf_len, rbuf_ptr, hist>>

(* Outcomes of an outbound bulk transfer of l bytes: half or all of the *)
(* bytes are accepted (the transfer completing or timing out), or the   *)
(* transfer times out with nothing accepted, or it fails.              *)
OutCounts(l) == {(l + 1) \div 2, l}

OutResults(l) ==
    {[rc |-> r, n |-> k] : r \in {"OK", "TIMEOUT"}, k \in OutCounts(l)}
    \cup {[rc |-> "TIMEOUT", n |-> 0], [rc |-> "ERR", n |-> 0]}

(* Outcomes of an inbound bulk transfer into a buffer of `size` bytes,   *)
(* the device delivering one of the byte strings in `datas`.           *)
InResults(size, datas) ==
    {[rc |-> r, bytes |-> d] : r \in {"OK", "TIMEOUT"},
                               d \in {x \in datas : Len(x) <= size}}
    \cup {[rc |-> "ERR", bytes |-> <<>>]}

StreamDatas == {InBytes(n) : n \in 0..MaxStreamLen}

(* History of the read buffer of cdc_acm since the open: the data of   *)
(* the inbound transfers of usbtr_recv and the bytes its calls have    *)
(* returned, each concatenated in order.  It is kept (on) until a      *)
(* transfer fails, a flush runs or it grows beyond MaxHist bytes.      *)
NoHist == [on |-> FALSE, xfers |-> <<>>, given |-> <<>>]

Recorded(h, bytes, out) ==
    IF h.on /\ Len(h.xfers) + Len(bytes) <= MaxHist
    THEN [h EXCEPT !.xfers = h.xfers \o bytes, !.given = h.given \o out]
    ELSE NoHist

(* A control transfer: the handle it is issued on ("instance" for the  *)
(* instance's own handle, "uninit" for a handle read from memory that  *)
(* was never written), its request and its value, and how the call is  *)
(* answered.                                                           *)
NoCtl == [on |-> "none", req |-> "none", value |-> 0, rc |-> 0]

(* What libusb_control_transfer returns for a request without data:    *)
(* 0, or a negative error code                                         *)
ControlRcs == {0, FAIL}

(* What libusb returns for a control transfer with n bytes of data:   *)
(* a negative error code, or the number of bytes transferred (none of *)
(* them or all of them)                                                *)
ControlRcsOf(n) == {FAIL, 0, n}

(* struct firmware after memset: buf holds the bytes written so far  *)
(* (every other byte of the array is 0), size is f->size.              *)
NoFirmware == [buf |-> <<>>, size |-> 0]

(* A chunk of the Intel-HEX decoder: address, length and data (the     *)
(* data is Payload(len, seed))                                         *)
NoChunk == [addr |-> 0, len |-> 0, seed |-> 0]

(* What find_firmware was given and did: whether MSPDEBUG_TI3410_FW   *)
(* is set, which of the three paths fopen can open, the paths tried in *)
(* order and the one returned ("none" for NULL).                       *)
NoSearch ==
    [done |-> FALSE, env |-> FALSE,
     can |-> [env |-> FALSE, lib |-> FALSE, cwd |-> FALSE],
     tried |-> <<>>, file |-> "none"]

(* The frame of a call before it starts.  Beyond the arguments and the *)
(* result it records what the call did: the bulk transfers (wire,       *)
(* nxfer, last), the control transfer (ctl), the step an open stopped   *)
(* at (why), the state in which the call left the handle it worked on   *)
(* (held), and whether a recv returned bytes that were queued at the    *)
(* device before the last flush (old).                                  *)
(* An open also keeps the log of its steps (steps, and cleanup for     *)
(* what it undoes on failure), bNumConfigurations of the device        *)
(* (nconf), its place in setup_port (idx), and of a firmware load the  *)
(* struct firmware (fw), the chunk handed over last (chunk), the count *)
(* of chunks (nchunk), the data of the accepted ones (acc) and the     *)
(* bytes sent to the boot loader (image); search is the record of     *)
(* find_firmware, kept until load_firmware goes on to decode.          *)
NewCall(o) ==
    [op |-> o, data |-> <<>>, ptr |-> 0, len |-> 0, maxlen |-> 0,
     wire |-> <<>>, nxfer |-> 0, last |-> NoXfer, ret |-> 0, out |-> <<>>,
     elapsed |-> 0, deadlineHit |-> FALSE,
     ctl |-> NoCtl, why |-> "none", held |-> "null", old |-> FALSE,
     present |-> TRUE, fresh |-> FALSE, dtr |-> FALSE, rts |-> FALSE,
     steps |-> <<>>, cleanup |-> <<>>, nconf |-> 0, idx |-> 0,
     fw |-> NoFirmware, chunk |-> NoChunk, nchunk |-> 0, acc |-> <<>>,
     image |-> <<>>, search |-> NoSearch, cfg |-> <<>>, baud |-> 0]

(* While q packets wait at the device, an inbound transfer that does  *)
(* not fail carries one: more than the `empty` bytes of a transfer     *)
(* without data.                                                       *)
Answers(q, results, empty) ==
    {r \in results : q > 0 => (r.rc = "ERR" \/ Len(r.bytes) > empty)}

(* Packets that were queued at the device when the last flush began and *)
(* that no transfer has read yet: the device answers in order, so an    *)
(* inbound transfer that carries more than `empty` bytes takes the      *)
(* oldest of them.                                                      *)
AfterRead(q, bytes, empty) == IF Len(bytes) > empty /\ q > 0 THEN q - 1 ELSE q

(* The frame once an outbound transfer of the len bytes at data+ptr is *)
(* submitted, and once it has ended with result res                    *)
SubmitOut(c) ==
    [c EXCEPT !.nxfer = Min(MaxXfers, c.nxfer + 1),
              !.last = [dir |-> "out", rc |-> "PENDING",
                        sub |-> SubSeq(c.data, c.ptr + 1, c.ptr + c.len),
                        size |-> c.len, n |-> 0, bytes |-> <<>>]]

BulkOut(c, res) ==
    [c EXCEPT !.last = [c.last EXCEPT !.rc = res.rc, !.n = res.n],
              !.wire = c.wire \o SubSeq(c.last.sub, 1, res.n)]

(* The frame after an inbound transfer into a buffer of `size` bytes *)
BulkIn(c, size, res) ==
    [c EXCEPT !.nxfer = Min(MaxXfers, c.nxfer + 1),
              !.last = [dir |-> "in", rc |-> res.rc, sub |-> <<>>,
                        size |-> size, n |-> Len(res.bytes), bytes |-> res.bytes]]

(* One entry of the log of a call: a step and what it returned *)
Step(name, rc) == [name |-> name, rc |-> rc]

(* memcpy of `new` over the start of `old` *)
Overwrite(old, new) == new \o SubSeq(old, Len(new) + 1, Len(old))

(* Before any open: no instance, nothing opened or claimed *)
Init ==
    /\ backend \in Backends
    /\ inst = "none"
    /\ pc = "idle"
    /\ call = NewCall("none")
    /\ handle = "null"
    /\ leaked = 0
    /\ stale = 0
    /\ lost = FALSE
    /\ ident = "path"
    /\ rbuf = <<>>
    /\ rbuf_len = 0
    /\ rbuf_ptr = 0
    /\ hist = NoHist

(* ------------------------------------------------------------------ *)
(* bslhid: USB-HID framing backend                                    *)
(* ------------------------------------------------------------------ *)

(* outbuf as bslhid_send builds it: filler, header, length, payload *)
bslhid_outbuf(data) ==
    [i \in 1..BSLHID_XFER_SIZE |->
        IF i = 1 THEN BSLHID_HEADER
        ELSE IF i = 2 THEN Len(data) % 256
        ELSE IF i - 2 <= Len(data) THEN data[i - 2]
        ELSE BSLHID_FILL]

bslhid_suspended_Mut(h) == FALSE

(* if (!tr->handle): the handle is null between suspend and resume *)
bslhid_suspended(h) == h = "null"

bslhid_mtu_exceeded_Mut(len) == len > BSLHID_XFER_SIZE

bslhid_mtu_exceeded(len) == len > BSLHID_MTU

(* bslhid_send up to the head of its transfer loop *)
bslhid_send ==
    /\ backend = "bslhid"
    /\ inst = "live"
    /\ pc = "idle"
    /\ \E n \in HidSendLens, seed \in SendSeeds :
         LET c == [NewCall("send") EXCEPT !.data = Payload(n, seed), !.len = n] IN
         IF bslhid_suspended(handle) \/ bslhid_mtu_exceeded(n)
         THEN /\ call' = [c EXCEPT !.ret = FAIL]
              /\ pc' = "idle"
         ELSE IF c.len = 0
         THEN /\ call' = [c EXCEPT !.ret = 0]
              /\ pc' = "idle"
         ELSE /\ call' = c
              /\ pc' = "send"
    /\ UNCHANGED <<backend, hist, inst, leaked, stale, lost, handle, ident, rbuf, rbuf_len, rbuf_ptr>>

(* One iteration of the while (len) loop of bslhid_send: the transfer   *)
(* is given data and len, not outbuf.                                  *)
bslhid_send_loop ==
    /\ backend = "bslhid"
    /\ pc \in {"send", "send_xfer"}
    /\ IF pc = "send"
       THEN /\ call' = SubmitOut(call)
            /\ pc' = "send_xfer"
       ELSE \E res \in OutResults(call.len) :
         LET c == BulkOut(call, res) IN
         IF res.rc # "OK" /\ res.rc # "TIMEOUT"
         THEN /\ call' = [c EXCEPT !.ret = FAIL]
              /\ pc' = "idle"
         ELSE LET d == [c EXCEPT !.ptr = c.ptr + res.n, !.len = c.len - res.n] IN
              IF d.len = 0
              THEN /\ call' = [d EXCEPT !.ret = 0]
                   /\ pc' = "idle"
              ELSE /\ call' = d
                   /\ pc' = "send"
    /\ UNCHANGED <<backend, hist, inst, leaked, stale, lost, handle, ident, rbuf, rbuf_len, rbuf_ptr>>

(* Frames a device may deliver: header hdr, declared length d, payload   *)
(* bytes 1..d, filler up to 64 bytes, cut to the r bytes transferred.   *)
HidFrame(hdr, d, r) ==
    [i \in 1..r |->
        IF i = 1 THEN hdr
        ELSE IF i = 2 THEN d
        ELSE IF i - 2 <= d THEN (i - 2) % 256
        ELSE BSLHID_FILL]

HidDatas ==
    {HidFrame(h, d, r) :
        h \in {BSLHID_HEADER, 0},
        d \in {0, 1, 2, BSLHID_MTU, BSLHID_MTU + 1},
        r \in {0, 1, 2, 3, 4, BSLHID_XFER_SIZE}}

HidRecvMax == {1, 2, BSLHID_MTU}

(* inbuf after a transfer of r bytes: the bytes past r are whatever    *)
(* the stack held (0 here); the length checks keep recv off them.      *)
bslhid_inbuf(bytes) ==
    [i \in 1..BSLHID_XFER_SIZE |-> IF i <= Len(bytes) THEN bytes[i] ELSE 0]

bslhid_bad_length_Mut(len, max_len, r) == len > max_len

bslhid_bad_length(len, max_len, r) == (len > max_len) \/ (len + 2 > r)

bslhid_payload_Mut(inbuf, len) == [i \in 1..len |-> inbuf[i]]

(* memcpy(data, inbuf + 2, len) *)
bslhid_payload(inbuf, len) == [i \in 1..len |-> inbuf[i + 2]]

bslhid_recv ==
    /\ backend = "bslhid"
    /\ inst = "live"
    /\ pc = "idle"
    /\ pc' = "idle"
    /\ \E max_len \in HidRecvMax :
         LET c0 == [NewCall("recv") EXCEPT !.maxlen = max_len] IN
         IF bslhid_suspended(handle)
         THEN call' = [c0 EXCEPT !.ret = FAIL]
         ELSE \E res \in Answers(stale, InResults(BSLHID_XFER_SIZE, HidDatas), 0) :
                LET c == BulkIn(c0, BSLHID_XFER_SIZE, res)
                    r == Len(res.bytes)
                    inbuf == bslhid_inbuf(res.bytes)
                    len == inbuf[2]
                IN
                IF res.rc # "OK" /\ res.rc # "TIMEOUT"
                THEN call' = [c EXCEPT !.ret = FAIL]
                ELSE IF r < 2
                THEN call' = [c EXCEPT !.ret = FAIL]
                ELSE IF inbuf[1] # BSLHID_HEADER
                THEN call' = [c EXCEPT !.ret = FAIL]
                ELSE IF bslhid_bad_length(len, max_len, r)
                THEN call' = [c EXCEPT !.ret = FAIL]
                ELSE call' = [c EXCEPT !.out = bslhid_payload(inbuf, len),
                                       !.ret = len,
                                       !.old = (stale > 0)]
    /\ stale' = IF bslhid_suspended(handle) THEN stale
                ELSE AfterRead(stale, call'.last.bytes, 0)
    /\ UNCHANGED <<backend, hist, inst, leaked, lost, handle, ident, rbuf, rbuf_len, rbuf_ptr>>

(* bslhid_flush up to the head of its drain loop *)
bslhid_flush ==
    /\ backend = "bslhid"
    /\ inst = "live"
    /\ pc = "idle"
    /\ IF bslhid_suspended(handle)
       THEN /\ call' = [NewCall("flush") EXCEPT !.ret = 0]
            /\ pc' = "idle"
       ELSE /\ call' = NewCall("flush")
            /\ pc' = "flush"
    /\ stale' \in stale..MaxQueued
    /\ UNCHANGED <<backend, hist, inst, leaked, lost, handle, ident, rbuf, rbuf_len, rbuf_ptr>>

(* while (libusb_bulk_transfer(...) != 0); *)
bslhid_flush_loop ==
    /\ backend = "bslhid"
    /\ pc = "flush"
    /\ \E res \in Answers(stale, InResults(BSLHID_XFER_SIZE, HidDatas), 0) :
         LET c == BulkIn(call, BSLHID_XFER_SIZE, res) IN
         IF res.rc # "OK"
         THEN /\ call' = c
              /\ pc' = "flush"
         ELSE /\ call' = [c EXCEPT !.ret = 0]
              /\ pc' = "idle"
    /\ stale' = AfterRead(stale, call'.last.bytes, 0)
    /\ UNCHANGED <<backend, hist, inst, leaked, lost, handle, ident, rbuf, rbuf_len, rbuf_ptr>>

(* bslhid_suspend: release and close when tr->handle is not null.  A   *)
(* handle that a failed claim closed is closed a second time, which    *)
(* may end the process.                                                *)
bslhid_suspend ==
    /\ backend = "bslhid"
    /\ inst = "live"
    /\ pc = "idle"
    /\ pc' \in (IF handle = "closed" THEN {"idle", "crashed"} ELSE {"idle"})
    /\ call' = [NewCall("suspend") EXCEPT
                   !.ret = 0, !.held = "null",
                   !.steps = IF bslhid_suspended(handle) THEN <<>>
                             ELSE <<Step("libusb_release_interface", 0),
                                    Step("libusb_close", 0)>>]
    /\ handle' = "null"
    /\ UNCHANGED <<backend, hist, inst, leaked, stale, lost, ident, rbuf, rbuf_len, rbuf_ptr>>

(* Where open_device can stop *)
OpenOutcomes == {"no_descriptor", "no_interface", "open_failed", "claim_failed", "ok"}

(* tr->handle after open_device started from a null handle: a failed    *)
(* claim closes the handle and leaves the pointer in place.            *)
bslhid_open_device(outcome) ==
    IF outcome = "ok" THEN "open"
    ELSE IF outcome = "claim_failed" THEN "closed"
    ELSE "null"

(* What usbutil_find_by_loc(tr->path) needs to find a device that is  *)
(* present: tr->path holds the location only when the instance was      *)
(* opened by location; opened by serial number it is the empty string,  *)
(* which the locator rejects.                                           *)
bslhid_path_usable(id) == id = "path"

(* bslhid_resume: present is whether the device is still attached at   *)
(* the identity the instance was opened with.                          *)
bslhid_resume ==
    /\ backend = "bslhid"
    /\ inst = "live"
    /\ pc = "idle"
    /\ pc' = "idle"
    /\ IF ~bslhid_suspended(handle)
       THEN /\ call' = [NewCall("resume") EXCEPT !.ret = 0, !.held = handle]
            /\ handle' = handle
            /\ lost' = FALSE
       ELSE \E present \in BOOLEAN :
              IF ~(present /\ bslhid_path_usable(ident))
              THEN /\ call' = [NewCall("resume") EXCEPT
                                  !.ret = FAIL, !.why = "not_found",
                                  !.present = present,
                                  !.steps = <<Step("usbutil_find_by_loc", FAIL)>>]
                   /\ handle' = handle
                   /\ lost' = TRUE
              ELSE \E outcome \in OpenOutcomes :
                     /\ handle' = bslhid_open_device(outcome)
                     /\ call' = [NewCall("resume") EXCEPT
                                    !.ret = IF outcome = "ok" THEN 0 ELSE FAIL,
                                    !.why = outcome,
                                    !.held = bslhid_open_device(outcome),
                                    !.steps = <<Step("usbutil_find_by_loc", 0),
                                                Step("bslhid_open_device",
                                                     IF outcome = "ok" THEN 0
                                                     ELSE FAIL)>>]
                     /\ lost' = IF outcome = "ok" THEN FALSE ELSE lost
    /\ UNCHANGED <<backend, hist, inst, leaked, stale, ident, rbuf, rbuf_len, rbuf_ptr>>

(* The value bslhid_set_modem returns for a requested line state *)
bslhid_set_modem_result_Mut(dtr, rts) == 0

bslhid_set_modem_result(dtr, rts) == FAIL

bslhid_set_modem ==
    /\ backend = "bslhid"
    /\ inst = "live"
    /\ pc = "idle"
    /\ pc' = "idle"
    /\ \E dtr \in BOOLEAN, rts \in BOOLEAN :
         call' = [NewCall("set_modem") EXCEPT
                     !.dtr = dtr, !.rts = rts,
                     !.ret = bslhid_set_modem_result(dtr, rts)]
    /\ UNCHANGED <<backend, hist, inst, leaked, stale, lost, handle, ident, rbuf, rbuf_len, rbuf_ptr>>

(* How many handles a call leaves open once the instance it worked on  *)
(* is freed                                                            *)
Leak(h) == IF h \in {"open", "unclaimed"} THEN 1 ELSE 0

(* bslhid_open up to the call of bslhid_flush: locate by the identity   *)
(* given, then open_device; the instance is freed on any failure.      *)
bslhid_open ==
    /\ backend = "bslhid"
    /\ inst = "none"
    /\ pc = "idle"
    /\ \E id \in {"path", "serial"}, outcome \in {"not_found"} \cup OpenOutcomes :
         LET h == IF outcome = "not_found" THEN "null"
                  ELSE bslhid_open_device(outcome)
         IN
         /\ leaked > 0 => outcome # "ok"
         /\ IF outcome # "ok"
            THEN /\ call' = [NewCall("open") EXCEPT
                                !.ret = FAIL, !.why = outcome, !.held = h]
                 /\ inst' = "none"
                 /\ handle' = "null"
                 /\ leaked' = leaked + Leak(h)
                 /\ pc' = "idle"
                 /\ UNCHANGED <<ident, stale>>
            ELSE /\ call' = [NewCall("open") EXCEPT !.why = outcome, !.held = h]
                 /\ inst' = "live"
                 /\ handle' = h
                 /\ ident' = id
                 /\ leaked' = leaked
                 /\ pc' = "flush"
                 /\ stale' \in stale..MaxQueued
    /\ lost' = FALSE
    /\ UNCHANGED <<backend, hist, rbuf, rbuf_len, rbuf_ptr>>

(* bslhid_destroy: release and close when tr->handle is not null, then *)
(* free.  A handle that a failed claim closed is closed a second time,  *)
(* which may end the process.                                          *)
bslhid_destroy ==
    /\ backend = "bslhid"
    /\ inst = "live"
    /\ pc = "idle"
    /\ pc' \in (IF handle = "closed" THEN {"idle", "crashed"} ELSE {"idle"})
    /\ call' = [NewCall("destroy") EXCEPT
                   !.fresh = (call.op = "open" /\ call.ret = 0),
                   !.held = IF bslhid_suspended(handle) THEN "null" ELSE "closed",
                   !.steps = IF bslhid_suspended(handle) THEN <<>>
                             ELSE <<Step("libusb_release_interface", 0),
                                    Step("libusb_unref_device", 0),
                                    Step("libusb_close", 0)>>]
    /\ inst' = "none"
    /\ handle' = "null"
    /\ lost' = FALSE
    /\ UNCHANGED <<backend, hist, leaked, stale, ident, rbuf, rbuf_len, rbuf_ptr>>

(* ------------------------------------------------------------------ *)
(* Time inside a recv deadline loop: seconds since the call began.     *)
(* A transfer that times out lasts its whole timeout; any other lasts  *)
(* up to MaxTick seconds.                                              *)
(* ------------------------------------------------------------------ *)
Ticks(rc, timeout) == IF rc = "TIMEOUT" THEN {timeout} ELSE 0..MaxTick

Later(c, deadline, dt) == [c EXCEPT !.elapsed = Min(deadline, c.elapsed + dt)]

StreamRecvMax == 1..MaxStreamLen

(* ------------------------------------------------------------------ *)
(* ti3410: legacy bridge backend                                      *)
(* ------------------------------------------------------------------ *)
(* ti3410_send up to the head of its transfer loop *)
ti3410_send ==
    /\ backend = "ti3410"
    /\ inst = "live"
    /\ pc = "idle"
    /\ \E n \in StreamSendLens, seed \in SendSeeds :
         LET c == [NewCall("send") EXCEPT !.data = Payload(n, seed), !.len = n] IN
         IF c.len # 0
         THEN /\ call' = c
              /\ pc' = "send"
         ELSE /\ call' = [c EXCEPT !.ret = 0]
              /\ pc' = "idle"
    /\ UNCHANGED <<backend, hist, inst, leaked, stale, lost, handle, ident, rbuf, rbuf_len, rbuf_ptr>>

(* One iteration of the transfer loop of ti3410_send *)
ti3410_send_loop ==
    /\ backend = "ti3410"
    /\ pc \in {"send", "send_xfer"}
    /\ IF pc = "send"
       THEN /\ call' = SubmitOut(call)
            /\ pc' = "send_xfer"
       ELSE \E res \in OutResults(call.len) :
         LET c == BulkOut(call, res) IN
         IF res.rc # "OK" /\ res.rc # "TIMEOUT"
         THEN /\ call' = [c EXCEPT !.ret = FAIL]
              /\ pc' = "idle"
         ELSE LET d == [c EXCEPT !.ptr = c.ptr + res.n, !.len = c.len - res.n] IN
              IF d.len # 0
              THEN /\ call' = d
                   /\ pc' = "send"
              ELSE /\ call' = [d EXCEPT !.ret = 0]
                   /\ pc' = "idle"
    /\ UNCHANGED <<backend, hist, inst, leaked, stale, lost, handle, ident, rbuf, rbuf_len, rbuf_ptr>>

ti3410_recv_fatal_Mut(rc) == FALSE

ti3410_recv_fatal(rc) == (rc # "OK") /\ (rc # "TIMEOUT")

ti3410_recv ==
    /\ backend = "ti3410"
    /\ inst = "live"
    /\ pc = "idle"
    /\ \E max_len \in StreamRecvMax :
         call' = [NewCall("recv") EXCEPT !.maxlen = max_len]
    /\ pc' = "recv"
    /\ UNCHANGED <<backend, hist, inst, leaked, stale, lost, handle, ident, rbuf, rbuf_len, rbuf_ptr>>

(* One pass of while (time(NULL) < deadline) in ti3410_recv: the        *)
(* transfer writes straight into the caller's buffer.                  *)
ti3410_recv_loop ==
    /\ backend = "ti3410"
    /\ pc = "recv"
    /\ IF ~(call.elapsed < TI_READ_DEADLINE)
       THEN /\ call' = [call EXCEPT !.deadlineHit = TRUE, !.ret = FAIL]
            /\ pc' = "idle"
            /\ stale' = stale
       ELSE \E res \in Answers(stale, InResults(call.maxlen, StreamDatas), 0) :
            \E dt \in Ticks(res.rc, TI_READ_DEADLINE) :
              LET c == [Later(BulkIn(call, call.maxlen, res), TI_READ_DEADLINE, dt)
                           EXCEPT !.out = Overwrite(call.out, res.bytes)]
                  rlen == Len(res.bytes)
              IN
              /\ stale' = AfterRead(stale, res.bytes, 0)
              /\ IF ti3410_recv_fatal(res.rc)
                 THEN /\ call' = [c EXCEPT !.ret = FAIL]
                      /\ pc' = "idle"
                 ELSE IF rlen > 0
                 THEN /\ call' = [c EXCEPT !.ret = rlen, !.old = (stale > 0)]
                      /\ pc' = "idle"
                 ELSE /\ call' = c
                      /\ pc' = "recv"
    /\ UNCHANGED <<backend, hist, inst, leaked, lost, handle, ident, rbuf, rbuf_len, rbuf_ptr>>

(* ti3410_flush returns at once *)
ti3410_flush ==
    /\ backend = "ti3410"
    /\ inst = "live"
    /\ pc = "idle"
    /\ pc' = "idle"
    /\ call' = [NewCall("flush") EXCEPT !.ret = 0]
    /\ stale' \in stale..MaxQueued
    /\ UNCHANGED <<backend, hist, inst, leaked, lost, handle, ident, rbuf, rbuf_len, rbuf_ptr>>

(* The value ti3410_set_modem returns for a requested line state *)
ti3410_set_modem_result(dtr, rts) == FAIL

ti3410_set_modem ==
    /\ backend = "ti3410"
    /\ inst = "live"
    /\ pc = "idle"
    /\ pc' = "idle"
    /\ \E dtr \in BOOLEAN, rts \in BOOLEAN :
         call' = [NewCall("set_modem") EXCEPT
                     !.dtr = dtr, !.rts = rts,
                     !.ret = ti3410_set_modem_result(dtr, rts)]
    /\ UNCHANGED <<backend, hist, inst, leaked, stale, lost, handle, ident, rbuf, rbuf_len, rbuf_ptr>>

(* Where ti3410_open can stop, in the order of the code: the locator,   *)
(* the device descriptor, the firmware download of a device that shows  *)
(* one configuration (load the image, descriptor, open, claim, bulk     *)
(* writes, then locate again), open_device (descriptors, open, select   *)
(* the active configuration, claim) and setup_port.                    *)
Ti3410OpenOutcomes ==
    {"not_found", "no_descriptor",
     "fw_load", "fw_descriptor", "fw_open", "fw_claim", "fw_bulk", "fw_not_found",
     "od_descriptor", "od_config", "od_open", "od_set_configuration", "od_claim",
     "setup_port", "ok"}

(* The handle the open worked on last, as the open leaves it: do_download *)
(* and open_device close it when the claim, a bulk write or the          *)
(* configuration fails, and ti3410_open closes it when setup_port fails. *)
ti3410_open_handle(outcome) ==
    IF outcome = "ok" THEN "open"
    ELSE IF outcome \in {"fw_claim", "fw_bulk", "od_set_configuration",
                         "od_claim", "setup_port"} THEN "closed"
    ELSE "null"

Names(log) == [i \in 1..Len(log) |-> log[i].name]

(* ti3410_open returning NULL at `outcome`.  In do_download the handle *)
(* is a local that libusb_open leaves unwritten when it fails, so the  *)
(* test of it reads an uninitialised pointer: the download fails or    *)
(* the process ends.                                                   *)
ti3410_open_fails(c, outcome) ==
    LET h == ti3410_open_handle(outcome) IN
    /\ call' = [c EXCEPT !.ret = FAIL, !.why = outcome, !.held = h]
    /\ inst' = "none"
    /\ handle' = "null"
    /\ leaked' = leaked + Leak(h)
    /\ pc' \in (IF outcome = "fw_open" THEN {"idle", "crashed"} ELSE {"idle"})

(* desc.bNumConfigurations == 1: the device runs its boot loader *)
ti3410_needs_firmware_Mut(nconf) == nconf # 1

ti3410_needs_firmware(nconf) == nconf = 1

(* find_firmware: the path of the environment variable if it is set,  *)
(* then the installed one, then the one in the current directory; the  *)
(* first that fopen opens is returned.                                 *)
find_firmware_Mut(env, can) ==
    LET t0 == IF env THEN <<"env">> ELSE <<>> IN
    IF env /\ can.env THEN [tried |-> t0, file |-> "env"]
    ELSE IF can.cwd THEN [tried |-> t0 \o <<"cwd">>, file |-> "cwd"]
    ELSE IF can.lib THEN [tried |-> t0 \o <<"cwd", "lib">>, file |-> "lib"]
    ELSE [tried |-> t0 \o <<"cwd", "lib">>, file |-> "none"]

find_firmware(env, can) ==
    LET t0 == IF env THEN <<"env">> ELSE <<>> IN
    IF env /\ can.env THEN [tried |-> t0, file |-> "env"]
    ELSE IF can.lib THEN [tried |-> t0 \o <<"lib">>, file |-> "lib"]
    ELSE IF can.cwd THEN [tried |-> t0 \o <<"lib", "cwd">>, file |-> "cwd"]
    ELSE [tried |-> t0 \o <<"lib", "cwd">>, file |-> "none"]

(* ti3410_open up to open_device or, for a device in its boot          *)
(* configuration, up to the decoding of the firmware file              *)
(* (find_firmware and ihex_check of load_firmware included).           *)
ti3410_open ==
    /\ backend = "ti3410"
    /\ inst = "none"
    /\ pc = "idle"
    /\ \E found \in BOOLEAN, rc \in ControlRcs, nconf \in {1, 2},
          env \in BOOLEAN, can \in [{"env", "lib", "cwd"} -> BOOLEAN],
          ihex \in BOOLEAN :
         LET c0 == [NewCall("open") EXCEPT
                       !.steps = <<Step("locate", IF found THEN 0 ELSE FAIL)>>]
             c1 == [c0 EXCEPT !.steps = @ \o <<Step("get_device_descriptor", rc)>>]
             c2 == [c1 EXCEPT !.nconf = nconf]
             ff == find_firmware(env, can)
             c3 == [c2 EXCEPT !.search = [done |-> TRUE, env |-> env, can |-> can,
                                          tried |-> ff.tried, file |-> ff.file]]
             searched == found /\ rc = 0 /\ ti3410_needs_firmware(nconf)
         IN
         (* an input that a path does not read takes one value on it *)
         /\ ~found => rc = 0
         /\ (~found \/ rc # 0) => nconf = 1
         /\ ~searched => (~env /\ \A k \in DOMAIN can : ~can[k])
         /\ (~searched \/ ff.file = "none") => ihex
         /\ IF ~found THEN ti3410_open_fails(c0, "not_found")
            ELSE IF rc # 0 THEN ti3410_open_fails(c1, "no_descriptor")
            ELSE IF ~ti3410_needs_firmware(nconf)
            THEN /\ call' = c2
                 /\ pc' = "open_device"
                 /\ UNCHANGED <<inst, handle, leaked>>
            ELSE IF ff.file = "none" \/ ~ihex
            THEN ti3410_open_fails(c3, "fw_load")
            ELSE /\ call' = [c3 EXCEPT !.fw = NoFirmware]
                 /\ pc' = "fw_load"
                 /\ UNCHANGED <<inst, handle, leaked>>
    /\ UNCHANGED <<backend, hist, stale, lost, ident, rbuf, rbuf_len, rbuf_ptr>>

(* The chunks the decoder may hand to do_extract when f->size bytes    *)
(* are accumulated: the next address, an address after a gap, or       *)
(* address 0 again; a few short lengths, or more than the buffer holds.*)
ChunkLens == {1, 4, TI_FIRMWARE_BUF_SIZE + 1}

ChunkSeeds == {0, 100}

(* A chunk longer than a packet of the download *)
LongChunkLen == TI_DOWNLOAD_MAX_PACKET_SIZE + 6

Chunks(size) ==
    {[addr |-> a, len |-> l, seed |-> sd] :
        a \in {0, size, size + 4}, l \in ChunkLens, sd \in ChunkSeeds}
    \cup (IF size = 0 THEN {[addr |-> 0, len |-> LongChunkLen, seed |-> 0]} ELSE {})

ChunkData(ch) == Payload(ch.len, ch.seed)

(* do_extract: the firmware after the chunk, and the value returned.   *)
do_extract_Mut(f, ch) ==
    IF f.size + ch.len > TI_FIRMWARE_BUF_SIZE
    THEN [f |-> f, rc |-> FAIL]
    ELSE [f |-> [buf |-> f.buf \o ChunkData(ch), size |-> f.size + ch.len],
          rc |-> 0]

do_extract(f, ch) ==
    IF f.size # ch.addr
    THEN [f |-> f, rc |-> FAIL]
    ELSE IF f.size + ch.len > TI_FIRMWARE_BUF_SIZE
    THEN [f |-> f, rc |-> FAIL]
    ELSE [f |-> [buf |-> f.buf \o ChunkData(ch), size |-> f.size + ch.len],
          rc |-> 0]

(* load_firmware: ihex_extract hands one more chunk to do_extract; a   *)
(* chunk that do_extract refuses ends the load and the open.           *)
ti3410_do_extract ==
    /\ backend = "ti3410"
    /\ pc = "fw_load"
    /\ call.nchunk < MaxChunks
    /\ \E ch \in Chunks(call.fw.size) :
         LET r == do_extract(call.fw, ch)
             c == [call EXCEPT !.chunk = ch, !.nchunk = @ + 1, !.search = NoSearch]
         IN
         IF r.rc < 0
         THEN ti3410_open_fails(c, "fw_load")
         ELSE /\ call' = [c EXCEPT !.fw = r.f, !.acc = @ \o <<ChunkData(ch)>>]
              /\ pc' = "fw_load"
              /\ UNCHANGED <<inst, handle, leaked>>
    /\ UNCHANGED <<backend, hist, stale, lost, ident, rbuf, rbuf_len, rbuf_ptr>>

(* The byte at offset i of f->buf *)
FwByte(f, i) == IF i + 1 <= Len(f.buf) THEN f.buf[i + 1] ELSE 0

(* for (i = lo; i < hi; i++) cksum += f->buf[i], cksum a uint8_t that  *)
(* starts at 0: the sum modulo 256, added up by halves so that the     *)
(* evaluation stays shallow for a long image.                          *)
RECURSIVE cksum_from(_, _, _)
cksum_from(f, lo, hi) ==
    IF ~(lo < hi) THEN 0
    ELSE IF hi = lo + 1 THEN FwByte(f, lo) % 256
    ELSE LET mid == (lo + hi) \div 2 IN
         (cksum_from(f, lo, mid) + cksum_from(f, mid, hi)) % 256

(* prepare_firmware: real_size is a uint16_t, the three bytes of the   *)
(* header are stored at offsets 0, 1 and 2 of the buffer.              *)
prepare_firmware_Mut(f) ==
    LET real_size == (f.size - 3) % 65536
        cksum == cksum_from(f, 3, f.size)
    IN  [f EXCEPT !.buf = <<FwByte(f, 0), real_size % 256,
                            (real_size \div 256) % 256, cksum>>
                          \o SubSeq(f.buf, 5, Len(f.buf))]

prepare_firmware(f) ==
    LET real_size == (f.size - 3) % 65536
        cksum == cksum_from(f, 3, f.size)
    IN  [f EXCEPT !.buf = <<real_size % 256, (real_size \div 256) % 256, cksum>>
                          \o SubSeq(f.buf, 4, Len(f.buf))]

(* What do_download sends: the first f->size bytes of f->buf *)
do_download_image(f) == [i \in 1..f.size |-> FwByte(f, i - 1)]

(* download_firmware once the file is decoded: prepare_firmware, then  *)
(* do_download up to its loop (descriptor, open, claim).               *)
ti3410_download_firmware ==
    /\ backend = "ti3410"
    /\ pc = "fw_load"
    /\ \E outcome \in {"fw_descriptor", "fw_open", "fw_claim", "ok"} :
         LET f == prepare_firmware(call.fw)
             c == [call EXCEPT !.fw = f, !.search = NoSearch,
                               !.steps = @ \o <<Step("prepare_firmware", 0)>>]
         IN
         IF outcome # "ok"
         THEN ti3410_open_fails(c, outcome)
         ELSE /\ call' = [c EXCEPT !.image = do_download_image(f),
                                   !.data = do_download_image(f),
                                   !.ptr = 0]
              /\ pc' = "fw_download"
              /\ UNCHANGED <<inst, handle, leaked>>
    /\ UNCHANGED <<backend, hist, stale, lost, ident, rbuf, rbuf_len, rbuf_ptr>>

(* plen of do_download: what is left of the image, at most a packet *)
do_download_plen_Mut(size, offset) == size - offset

do_download_plen(size, offset) ==
    IF size - offset > TI_DOWNLOAD_MAX_PACKET_SIZE
    THEN TI_DOWNLOAD_MAX_PACKET_SIZE
    ELSE size - offset

(* One pass of while (offset < f->size) in do_download, or what        *)
(* follows the loop: 100 ms, the reset (a failure is only reported),   *)
(* close, and the 2 s of download_firmware; the locals of do_download  *)
(* end with it, what reached the device (wire) stays.  A bulk write    *)
(* that fails with anything but a timeout closes the handle and ends   *)
(* the open.                                                           *)
ti3410_do_download ==
    /\ backend = "ti3410"
    /\ pc = "fw_download"
    /\ IF call.ptr < call.fw.size
       THEN LET plen == do_download_plen(call.fw.size, call.ptr) IN
            \E res \in OutResults(plen) :
              LET c == BulkOut(SubmitOut([call EXCEPT !.len = plen]), res) IN
              IF res.rc # "OK" /\ res.rc # "TIMEOUT"
              THEN ti3410_open_fails(
                       [c EXCEPT !.cleanup = <<Step("close", 0)>>], "fw_bulk")
              ELSE /\ call' = [c EXCEPT !.ptr = c.ptr + res.n]
                   /\ pc' = "fw_download"
                   /\ UNCHANGED <<inst, handle, leaked>>
       ELSE \E reset \in ControlRcs :
              /\ call' = [call EXCEPT
                            !.data = <<>>, !.ptr = 0, !.len = 0,
                            !.nxfer = 0, !.last = NoXfer,
                            !.steps = @ \o <<Step("push", 0), Step("delay_ms", 0),
                                             Step("reset", reset), Step("close", 0),
                                             Step("delay_s", 0)>>]
              /\ pc' = "open_device"
              /\ UNCHANGED <<inst, handle, leaked>>
    /\ UNCHANGED <<backend, hist, stale, lost, ident, rbuf, rbuf_len, rbuf_ptr>>

(* ti3410_open after the download, if there was one: the device is     *)
(* located again with the arguments of the call, then open_device.     *)
ti3410_open_device ==
    /\ backend = "ti3410"
    /\ pc = "open_device"
    /\ \E found \in BOOLEAN,
          outcome \in {"od_descriptor", "od_config", "od_open",
                       "od_set_configuration", "od_claim", "ok"} :
         LET again == ti3410_needs_firmware(call.nconf)
             c == IF again
                  THEN [call EXCEPT !.steps = @ \o
                           <<Step("locate", IF found THEN 0 ELSE FAIL)>>]
                  ELSE call
         IN
         IF again /\ ~found THEN ti3410_open_fails(c, "fw_not_found")
         ELSE IF outcome # "ok" THEN ti3410_open_fails(c, outcome)
         ELSE /\ leaked = 0
              /\ call' = [c EXCEPT !.steps = @ \o <<Step("open_device", 0)>>,
                                   !.idx = 1]
              /\ pc' = "setup_port"
              /\ UNCHANGED <<inst, handle, leaked>>
    /\ UNCHANGED <<backend, hist, stale, lost, ident, rbuf, rbuf_len, rbuf_ptr>>

(* The transfers of setup_port in the order of the code, do_open_start *)
(* (set_termios, set_mcr, TI_OPEN_PORT, TI_START_PORT) spelled out.    *)
do_open_start_steps == <<"set_termios", "set_mcr", "TI_OPEN_PORT", "TI_START_PORT">>

setup_port_steps_Mut ==
    <<"interrupt_flush">> \o do_open_start_steps
    \o <<"TI_PURGE_INPUT", "interrupt_flush", "interrupt_flush",
         "TI_PURGE_OUTPUT", "interrupt_flush",
         "clear_halt_in", "clear_halt_out">>

setup_port_steps ==
    <<"interrupt_flush">> \o do_open_start_steps
    \o <<"TI_PURGE_INPUT", "interrupt_flush", "interrupt_flush",
         "TI_PURGE_OUTPUT", "interrupt_flush",
         "clear_halt_in", "clear_halt_out">>
    \o do_open_start_steps

(* The bytes of data a transfer of setup_port carries *)
setup_port_payload(name) ==
    IF name = "set_termios" THEN TI_TERMIOS_SIZE
    ELSE IF name = "set_mcr" THEN TI_MCR_SIZE
    ELSE 0

(* The transfers whose result setup_port tests: all but the reads of   *)
(* the interrupt endpoint                                              *)
setup_port_checked_Mut(name) ==
    name \notin {"interrupt_flush", "TI_PURGE_OUTPUT", "clear_halt_out"}

setup_port_checked(name) == name # "interrupt_flush"

(* One transfer of setup_port (interrupt_flush discards what its read  *)
(* returns, and the log shows 0 for it).  When a tested transfer returns *)
(* anything but 0, ti3410_open runs teardown_port (TI_CLOSE_PORT),     *)
(* closes the handle and returns NULL; after the last one it returns   *)
(* the instance.                                                       *)
ti3410_setup_port ==
    /\ backend = "ti3410"
    /\ pc = "setup_port"
    /\ LET name == setup_port_steps[call.idx] IN
       \E rc \in ControlRcsOf(setup_port_payload(name)), down \in ControlRcs :
         LET seen == IF name = "interrupt_flush" THEN 0 ELSE rc
             c == [call EXCEPT
                      !.steps = @ \o <<Step(name, seen)>>,
                      !.ctl = [on |-> "instance", req |-> name, value |-> 0,
                               rc |-> seen]]
         IN
         IF setup_port_checked(name) /\ rc # 0
         THEN ti3410_open_fails(
                  [c EXCEPT !.cleanup = <<Step("TI_CLOSE_PORT", down),
                                          Step("close", 0)>>],
                  "setup_port")
         ELSE IF call.idx = Len(setup_port_steps)
         THEN /\ call' = [c EXCEPT !.ret = 0, !.why = "ok",
                                   !.held = ti3410_open_handle("ok")]
              /\ inst' = "live"
              /\ handle' = ti3410_open_handle("ok")
              /\ leaked' = leaked
              /\ pc' = "idle"
         ELSE /\ call' = [c EXCEPT !.idx = @ + 1]
              /\ pc' = "setup_port"
              /\ UNCHANGED <<inst, handle, leaked>>
    /\ UNCHANGED <<backend, hist, stale, lost, ident, rbuf, rbuf_len, rbuf_ptr>>

(* The handle of the instance once ti3410_destroy has returned:        *)
(* teardown_port sends TI_CLOSE_PORT and the instance is freed.        *)
ti3410_destroy_handle(h) == h

ti3410_destroy ==
    /\ backend = "ti3410"
    /\ inst = "live"
    /\ pc = "idle"
    /\ pc' = "idle"
    /\ \E rc \in {"OK", "ERR"} :
         call' = [NewCall("destroy") EXCEPT
                     !.fresh = (call.op = "open" /\ call.ret = 0),
                     !.ctl = [on |-> "instance", req |-> "TI_CLOSE_PORT",
                              value |-> 0, rc |-> rc],
                     !.held = ti3410_destroy_handle(handle)]
    /\ inst' = "none"
    /\ handle' = "null"
    /\ leaked' = leaked + Leak(ti3410_destroy_handle(handle))
    /\ UNCHANGED <<backend, hist, stale, lost, ident, rbuf, rbuf_len, rbuf_ptr>>

(* ------------------------------------------------------------------ *)
(* cdc_acm: CDC-ACM backend with a read buffer                        *)
(* ------------------------------------------------------------------ *)
(* cdc_acm_usbtr_send up to the head of its transfer loop *)
cdc_acm_usbtr_send ==
    /\ backend = "cdc_acm"
    /\ inst = "live"
    /\ pc = "idle"
    /\ \E n \in StreamSendLens, seed \in SendSeeds :
         LET c == [NewCall("send") EXCEPT !.data = Payload(n, seed), !.len = n] IN
         IF c.len > 0
         THEN /\ call' = c
              /\ pc' = "send"
         ELSE /\ call' = [c EXCEPT !.ret = 0]
              /\ pc' = "idle"
    /\ UNCHANGED <<backend, hist, inst, leaked, stale, lost, handle, ident, rbuf, rbuf_len, rbuf_ptr>>

(* One iteration of the transfer loop of cdc_acm_usbtr_send *)
cdc_acm_usbtr_send_loop ==
    /\ backend = "cdc_acm"
    /\ pc \in {"send", "send_xfer"}
    /\ IF pc = "send"
       THEN /\ call' = SubmitOut(call)
            /\ pc' = "send_xfer"
       ELSE \E res \in OutResults(call.len) :
         LET c == BulkOut(call, res) IN
         IF res.rc # "OK" /\ res.rc # "TIMEOUT"
         THEN /\ call' = [c EXCEPT !.ret = FAIL]
              /\ pc' = "idle"
         ELSE LET d == [c EXCEPT !.ptr = c.ptr + res.n, !.len = c.len - res.n] IN
              IF d.len > 0
              THEN /\ call' = d
                   /\ pc' = "send"
              ELSE /\ call' = [d EXCEPT !.ret = 0]
                   /\ pc' = "idle"
    /\ UNCHANGED <<backend, hist, inst, leaked, stale, lost, handle, ident, rbuf, rbuf_len, rbuf_ptr>>

(* usbtr_recv of cdc_acm.c refills the read buffer when every byte of  *)
(* it has been handed out ...                                          *)
cdc_acm_rbuf_used_Mut(ptr, blen) == TRUE

cdc_acm_rbuf_used(ptr, blen) == ptr >= blen

(* ... and hands out what the caller asked for, or what is left *)
cdc_acm_recv_len_Mut(len, ptr, blen) == len

cdc_acm_recv_len(len, ptr, blen) == IF ptr + len > blen THEN blen - ptr ELSE len

(* memcpy of l bytes out of the read buffer at ptr: the buffer is an  *)
(* array of READ_BUFFER_SIZE bytes that the open zeroes, and rbuf      *)
(* holds the part of it that transfers have written.                   *)
cdc_acm_rbuf_read(buf, ptr, l) ==
    [i \in 1..l |-> IF ptr + i <= Len(buf) THEN buf[ptr + i] ELSE 0]

(* usbtr_recv of cdc_acm.c.  A transfer that fails ends the call after *)
(* the cursor has been reset, the valid length still that of the       *)
(* transfer before.                                                    *)
cdc_acm_usbtr_recv ==
    /\ backend = "cdc_acm"
    /\ inst = "live"
    /\ pc = "idle"
    /\ pc' = "idle"
    /\ \E len \in StreamRecvMax :
         LET c0 == [NewCall("recv") EXCEPT !.maxlen = len]
             Serve(c, buf, blen, ptr) ==
                 LET l == cdc_acm_recv_len(len, ptr, blen)
                     out == cdc_acm_rbuf_read(buf, ptr, l) IN
                 /\ call' = [c EXCEPT !.out = out, !.ret = l,
                                        !.old = (c.nxfer > 0 /\ stale > 0 /\ l > 0)]
                 /\ rbuf' = buf
                 /\ rbuf_len' = blen
                 /\ rbuf_ptr' = ptr + l
                 /\ hist' = Recorded(hist, c.last.bytes, out)
         IN
         IF cdc_acm_rbuf_used(rbuf_ptr, rbuf_len)
         THEN \E res \in Answers(stale, InResults(READ_BUFFER_SIZE, StreamDatas), 0) :
                LET c == BulkIn(c0, READ_BUFFER_SIZE, res) IN
                IF res.rc # "OK" /\ res.rc # "TIMEOUT"
                THEN /\ call' = [c EXCEPT !.ret = FAIL]
                     /\ rbuf_ptr' = 0
                     /\ hist' = NoHist
                     /\ UNCHANGED <<rbuf, rbuf_len>>
                ELSE Serve(c, Overwrite(rbuf, res.bytes), Len(res.bytes), 0)
         ELSE Serve(c0, rbuf, rbuf_len, rbuf_ptr)
    /\ stale' = AfterRead(stale, call'.last.bytes, 0)
    /\ UNCHANGED <<backend, inst, leaked, lost, handle, ident>>

cdc_acm_usbtr_flush ==
    /\ backend = "cdc_acm"
    /\ inst = "live"
    /\ pc = "idle"
    /\ call' = NewCall("flush")
    /\ pc' = "flush"
    /\ stale' \in stale..MaxQueued
    /\ hist' = NoHist
    /\ UNCHANGED <<backend, inst, leaked, lost, handle, ident, rbuf, rbuf_len, rbuf_ptr>>

(* while (libusb_bulk_transfer(...) != 0); then the buffer is emptied *)
cdc_acm_usbtr_flush_loop ==
    /\ backend = "cdc_acm"
    /\ pc = "flush"
    /\ \E res \in Answers(stale, InResults(FLUSH_BUF_SIZE, StreamDatas), 0) :
         LET c == BulkIn(call, FLUSH_BUF_SIZE, res) IN
         IF res.rc # "OK"
         THEN /\ call' = c
              /\ pc' = "flush"
              /\ UNCHANGED <<rbuf_len, rbuf_ptr, hist>>
         ELSE /\ call' = [c EXCEPT !.ret = 0]
              /\ pc' = "idle"
              /\ rbuf_len' = 0
              /\ rbuf_ptr' = 0
              /\ hist' = [NoHist EXCEPT !.on = (call.op = "open")]
    /\ stale' = AfterRead(stale, call'.last.bytes, 0)
    /\ UNCHANGED <<backend, inst, leaked, lost, handle, ident, rbuf>>

(* value of CDC_SET_CONTROL in usbtr_set_modem: the bits as requested  *)
cdc_acm_modem_value(dtr, rts) ==
    (IF dtr THEN CDC_CTRL_DTR ELSE 0) + (IF rts THEN CDC_CTRL_RTS ELSE 0)

cdc_acm_usbtr_set_modem ==
    /\ backend = "cdc_acm"
    /\ inst = "live"
    /\ pc = "idle"
    /\ pc' = "idle"
    /\ \E dtr \in BOOLEAN, rts \in BOOLEAN, rc \in ControlRcs :
         call' = [NewCall("set_modem") EXCEPT
                     !.dtr = dtr, !.rts = rts,
                     !.ctl = [on |-> "instance", req |-> "CDC_SET_CONTROL",
                              value |-> cdc_acm_modem_value(dtr, rts), rc |-> rc],
                     !.ret = IF rc # 0 THEN FAIL ELSE 0]
    /\ UNCHANGED <<backend, hist, inst, leaked, stale, lost, handle, ident, rbuf, rbuf_len, rbuf_ptr>>

(* Where cdc_acm_open can stop: the locator, find_interface,            *)
(* open_interface (open, claim) and configure_port.                    *)
CdcAcmOpenOutcomes ==
    {"not_found", "no_interface", "open_failed", "claim_failed",
     "configure_port", "ok"}

(* The handle as the open leaves it: open_interface closes it when the  *)
(* claim fails, and usbtr_destroy releases and closes it when           *)
(* configure_port fails.                                                *)
cdc_acm_open_handle(outcome) ==
    IF outcome = "ok" THEN "open"
    ELSE IF outcome \in {"claim_failed", "configure_port"} THEN "closed"
    ELSE "null"

(* configure_port: its control transfers and what it returns.  The    *)
(* line coding is sent as 7 bytes of data, CDC_SET_CONTROL has none.   *)
cdc_acm_configure_port(rc1, rc2) ==
    IF rc1 # 0
    THEN [steps |-> <<Step("CDC_SET_LINE_CODING", rc1)>>, rc |-> FAIL]
    ELSE [steps |-> <<Step("CDC_SET_LINE_CODING", rc1), Step("CDC_SET_CONTROL", rc2)>>,
          rc |-> IF rc2 # 0 THEN FAIL ELSE 0]

(* cdc_acm_open up to the call of usbtr_flush *)
cdc_acm_open ==
    /\ backend = "cdc_acm"
    /\ inst = "none"
    /\ pc = "idle"
    /\ \E early \in CdcAcmOpenOutcomes \ {"configure_port"},
          rc1 \in ControlRcsOf(CDC_LINE_CODING_SIZE), rc2 \in ControlRcs :
         LET cfg == cdc_acm_configure_port(rc1, rc2)
             outcome == IF early # "ok" THEN early
                        ELSE IF cfg.rc < 0 THEN "configure_port" ELSE "ok"
             h == cdc_acm_open_handle(outcome)
             c0 == [NewCall("open") EXCEPT
                       !.steps = IF early = "ok" THEN cfg.steps ELSE <<>>]
         IN
         /\ leaked > 0 => outcome \notin {"configure_port", "ok"}
         /\ IF outcome # "ok"
            THEN /\ call' = [c0 EXCEPT
                                !.ret = FAIL, !.why = outcome, !.held = h]
                 /\ inst' = "none"
                 /\ handle' = "null"
                 /\ leaked' = leaked + Leak(h)
                 /\ pc' = "idle"
                 /\ stale' = stale
            ELSE /\ call' = [c0 EXCEPT !.why = outcome, !.held = h]
                 /\ inst' = "live"
                 /\ handle' = h
                 /\ leaked' = leaked
                 /\ pc' = "flush"
                 /\ stale' \in stale..MaxQueued
    /\ rbuf' = <<>>
    /\ rbuf_len' = 0
    /\ rbuf_ptr' = 0
    /\ hist' = NoHist
    /\ UNCHANGED <<backend, lost, ident>>

(* usbtr_destroy: release the interface, close the handle, free *)
cdc_acm_usbtr_destroy ==
    /\ backend = "cdc_acm"
    /\ inst = "live"
    /\ pc = "idle"
    /\ pc' = "idle"
    /\ call' = [NewCall("destroy") EXCEPT
                   !.fresh = (call.op = "open" /\ call.ret = 0),
                   !.held = "closed"]
    /\ inst' = "none"
    /\ handle' = "null"
    /\ UNCHANGED <<backend, hist, leaked, stale, lost, ident, rbuf, rbuf_len, rbuf_ptr>>

(* ------------------------------------------------------------------ *)
(* cp210x backend                                                     *)
(* ------------------------------------------------------------------ *)
(* cp210x_usbtr_send up to the head of its transfer loop *)
cp210x_usbtr_send ==
    /\ backend = "cp210x"
    /\ inst = "live"
    /\ pc = "idle"
    /\ \E n \in StreamSendLens, seed \in SendSeeds :
         LET c == [NewCall("send") EXCEPT !.data = Payload(n, seed), !.len = n] IN
         IF c.len # 0
         THEN /\ call' = c
              /\ pc' = "send"
         ELSE /\ call' = [c EXCEPT !.ret = 0]
              /\ pc' = "idle"
    /\ UNCHANGED <<backend, hist, inst, leaked, stale, lost, handle, ident, rbuf, rbuf_len, rbuf_ptr>>

(* One iteration of the transfer loop of cp210x_usbtr_send *)
cp210x_usbtr_send_loop ==
    /\ backend = "cp210x"
    /\ pc \in {"send", "send_xfer"}
    /\ IF pc = "send"
       THEN /\ call' = SubmitOut(call)
            /\ pc' = "send_xfer"
       ELSE \E res \in OutResults(call.len) :
         LET c == BulkOut(call, res) IN
         IF res.rc # "OK" /\ res.rc # "TIMEOUT"
         THEN /\ call' = [c EXCEPT !.ret = FAIL]
              /\ pc' = "idle"
         ELSE LET d == [c EXCEPT !.ptr = c.ptr + res.n, !.len = c.len - res.n] IN
              IF d.len # 0
              THEN /\ call' = d
                   /\ pc' = "send"
              ELSE /\ call' = [d EXCEPT !.ret = 0]
                   /\ pc' = "idle"
    /\ UNCHANGED <<backend, hist, inst, leaked, stale, lost, handle, ident, rbuf, rbuf_len, rbuf_ptr>>

cp210x_usbtr_recv ==
    /\ backend = "cp210x"
    /\ inst = "live"
    /\ pc = "idle"
    /\ \E max_len \in StreamRecvMax :
         call' = [NewCall("recv") EXCEPT !.maxlen = max_len]
    /\ pc' = "recv"
    /\ UNCHANGED <<backend, hist, inst, leaked, stale, lost, handle, ident, rbuf, rbuf_len, rbuf_ptr>>

(* One pass of while (time(NULL) < deadline) in usbtr_recv of cp210x *)
cp210x_usbtr_recv_loop ==
    /\ backend = "cp210x"
    /\ pc = "recv"
    /\ IF ~(call.elapsed < CP210X_TIMEOUT_S)
       THEN /\ call' = [call EXCEPT !.deadlineHit = TRUE, !.ret = FAIL]
            /\ pc' = "idle"
            /\ stale' = stale
       ELSE \E res \in Answers(stale, InResults(call.maxlen, StreamDatas), 0) :
            \E dt \in Ticks(res.rc, CP210X_TIMEOUT_S) :
              LET c == [Later(BulkIn(call, call.maxlen, res), CP210X_TIMEOUT_S, dt)
                           EXCEPT !.out = Overwrite(call.out, res.bytes)]
                  received == Len(res.bytes)
              IN
              /\ stale' = AfterRead(stale, res.bytes, 0)
              /\ IF res.rc # "OK" /\ res.rc # "TIMEOUT"
                 THEN /\ call' = [c EXCEPT !.ret = FAIL]
                      /\ pc' = "idle"
                 ELSE IF res.rc = "OK"
                 THEN /\ call' = [c EXCEPT !.ret = received,
                                           !.old = (stale > 0 /\ received > 0)]
                      /\ pc' = "idle"
                 ELSE /\ call' = c
                      /\ pc' = "recv"
    /\ UNCHANGED <<backend, hist, inst, leaked, lost, handle, ident, rbuf, rbuf_len, rbuf_ptr>>

cp210x_usbtr_flush ==
    /\ backend = "cp210x"
    /\ inst = "live"
    /\ pc = "idle"
    /\ call' = NewCall("flush")
    /\ pc' = "flush"
    /\ stale' \in stale..MaxQueued
    /\ UNCHANGED <<backend, hist, inst, leaked, lost, handle, ident, rbuf, rbuf_len, rbuf_ptr>>

(* while (libusb_bulk_transfer(...) != 0); *)
cp210x_usbtr_flush_loop ==
    /\ backend = "cp210x"
    /\ pc = "flush"
    /\ \E res \in Answers(stale, InResults(FLUSH_BUF_SIZE, StreamDatas), 0) :
         LET c == BulkIn(call, FLUSH_BUF_SIZE, res) IN
         IF res.rc # "OK"
         THEN /\ call' = c
              /\ pc' = "flush"
         ELSE /\ call' = [c EXCEPT !.ret = 0]
              /\ pc' = "idle"
    /\ stale' = AfterRead(stale, call'.last.bytes, 0)
    /\ UNCHANGED <<backend, hist, inst, leaked, lost, handle, ident, rbuf, rbuf_len, rbuf_ptr>>

cp210x_modem_value_Mut(dtr, rts) ==
    CP210X_WRITE_DTR + CP210X_WRITE_RTS
    + (IF dtr THEN CP210X_DTR ELSE 0) + (IF rts THEN CP210X_RTS ELSE 0)

(* value of CP210X_SET_MHS in usbtr_set_modem: both write-enable bits, *)
(* and each line bit when the line is NOT requested (active low)       *)
cp210x_modem_value(dtr, rts) ==
    CP210X_WRITE_DTR + CP210X_WRITE_RTS
    + (IF ~dtr THEN CP210X_DTR ELSE 0) + (IF ~rts THEN CP210X_RTS ELSE 0)

cp210x_usbtr_set_modem ==
    /\ backend = "cp210x"
    /\ inst = "live"
    /\ pc = "idle"
    /\ pc' = "idle"
    /\ \E dtr \in BOOLEAN, rts \in BOOLEAN, rc \in ControlRcs :
         call' = [NewCall("set_modem") EXCEPT
                     !.dtr = dtr, !.rts = rts,
                     !.ctl = [on |-> "instance", req |-> "CP210X_SET_MHS",
                              value |-> cp210x_modem_value(dtr, rts), rc |-> rc],
                     !.ret = IF rc # 0 THEN FAIL ELSE 0]
    /\ UNCHANGED <<backend, hist, inst, leaked, stale, lost, handle, ident, rbuf, rbuf_len, rbuf_ptr>>

(* Baud rates the drivers are opened with *)
BaudRates == {9600, 115200}

(* One control transfer without payload as the bring-up logs it *)
Cfg(request, value, rc) == [req |-> request, value |-> value, rc |-> rc]

(* cp210x_open up to the interface loop of open_device: the locator    *)
(* and the configuration descriptor, which shows n interfaces of the   *)
(* vendor class.                                                       *)
cp210x_open ==
    /\ backend = "cp210x"
    /\ inst = "none"
    /\ pc = "idle"
    /\ \E outcome \in {"not_found", "no_config", "found"}, n \in 0..MaxIfaces :
         IF outcome # "found"
         THEN /\ call' = [NewCall("open") EXCEPT !.ret = FAIL, !.why = outcome]
              /\ pc' = "idle"
         ELSE \E baud_rate \in BaudRates :
              /\ call' = [NewCall("open") EXCEPT !.len = n, !.baud = baud_rate]
              /\ pc' = "open"
    /\ handle' = "null"
    /\ UNCHANGED <<backend, hist, inst, leaked, stale, lost, ident, rbuf, rbuf_len, rbuf_ptr>>

(* Where open_interface can stop *)
Cp210xInterfaceOutcomes ==
    {"no_descriptor", "open_failed", "claim_failed", "configure_port", "ok"}

(* tr->handle after open_interface, from its value h before: a failed  *)
(* claim or configure_port closes the handle and leaves the pointer.   *)
(* libusb_open leaves the pointer alone when it fails, and the test of *)
(* it then passes for a pointer an earlier interface left behind: the  *)
(* closed handle is used and closed once more.                         *)
cp210x_open_interface(h, outcome) ==
    IF outcome = "ok" THEN "open"
    ELSE IF outcome \in {"claim_failed", "configure_port"} THEN "closed"
    ELSE h

cp210x_configure_port_cmds_Mut(baud_rate) ==
    << [req |-> "CP210X_SET_BAUDDIV",
        value |-> (CP210X_CLOCK \div baud_rate) % 65536],
       [req |-> "CP210X_IFC_ENABLE", value |-> 1],
       [req |-> "CP210X_SET_MHS", value |-> 771] >>

(* The control transfers of configure_port in the order of its code *)
cp210x_configure_port_cmds(baud_rate) ==
    << [req |-> "CP210X_IFC_ENABLE", value |-> 1],
       [req |-> "CP210X_SET_BAUDDIV",
        value |-> (CP210X_CLOCK \div baud_rate) % 65536],
       [req |-> "CP210X_SET_MHS", value |-> 771] >>

(* The transfers configure_port issues from command i on, rcs[j] being *)
(* what libusb returns for command j: it returns at the first rc < 0.  *)
RECURSIVE cp210x_cfg_from(_, _, _)
cp210x_cfg_from(cmds, rcs, i) ==
    IF i > Len(cmds) THEN <<>>
    ELSE <<Cfg(cmds[i].req, cmds[i].value, rcs[i])>>
         \o (IF rcs[i] < 0 THEN <<>> ELSE cp210x_cfg_from(cmds, rcs, i + 1))

(* configure_port: the transfers issued and the return value *)
cp210x_configure_port(rcs, baud_rate) ==
    LET log == cp210x_cfg_from(cp210x_configure_port_cmds(baud_rate), rcs, 1) IN
    [cfg |-> log,
     rc |-> IF \E i \in 1..Len(log) : log[i].rc < 0 THEN FAIL ELSE 0]

(* One pass of the interface loop of open_device, then the rest of     *)
(* cp210x_open up to the call of usbtr_flush                           *)
cp210x_open_loop ==
    /\ backend = "cp210x"
    /\ pc = "open"
    /\ IF ~(call.ptr < call.len)
       THEN /\ call' = [call EXCEPT !.ret = FAIL, !.why = "no_interface",
                                    !.held = handle]
            /\ pc' = "idle"
            /\ handle' = "null"
            /\ leaked' = leaked + Leak(handle)
            /\ UNCHANGED <<inst, stale>>
       ELSE \E early \in (Cp210xInterfaceOutcomes \ {"configure_port"}),
               rcs \in [1..Len(cp210x_configure_port_cmds(call.baud))
                          -> ControlRcs] :
              LET claimed == early = "ok"
                  conf == IF claimed THEN cp210x_configure_port(rcs, call.baud)
                          ELSE [cfg |-> <<>>, rc |-> 0]
                  outcome == IF claimed /\ conf.rc < 0 THEN "configure_port"
                             ELSE early
                  h == cp210x_open_interface(handle, outcome) IN
              /\ ~claimed => \A i \in DOMAIN rcs : rcs[i] = 0
              /\ leaked > 0 => ~claimed
              /\ IF outcome = "ok"
                 THEN /\ call' = [call EXCEPT !.why = outcome, !.held = h,
                                              !.cfg = conf.cfg]
                      /\ inst' = "live"
                      /\ pc' = "flush"
                      /\ stale' \in stale..MaxQueued
                 ELSE /\ call' = [call EXCEPT !.ptr = call.ptr + 1,
                                              !.why = outcome, !.held = h,
                                              !.cfg = conf.cfg]
                      /\ pc' \in (IF outcome = "open_failed" /\ handle = "closed"
                                   THEN {"open", "crashed"} ELSE {"open"})
                      /\ UNCHANGED <<inst, stale>>
              /\ handle' = h
              /\ leaked' = leaked
    /\ UNCHANGED <<backend, hist, lost, ident, rbuf, rbuf_len, rbuf_ptr>>

(* usbtr_destroy: release the interface, close the handle, free *)
cp210x_usbtr_destroy ==
    /\ backend = "cp210x"
    /\ inst = "live"
    /\ pc = "idle"
    /\ pc' = "idle"
    /\ call' = [NewCall("destroy") EXCEPT
                   !.fresh = (call.op = "open" /\ call.ret = 0),
                   !.held = "closed"]
    /\ inst' = "none"
    /\ handle' = "null"
    /\ UNCHANGED <<backend, hist, leaked, stale, lost, ident, rbuf, rbuf_len, rbuf_ptr>>

(* ------------------------------------------------------------------ *)
(* ftdi backend: 2 status bytes lead every inbound transfer           *)
(* ------------------------------------------------------------------ *)
tr_send_advance_Mut(c, sent) == [c EXCEPT !.len = c.len - sent]

(* databuf += sent; len -= sent; *)
tr_send_advance(c, sent) == [c EXCEPT !.ptr = c.ptr + sent, !.len = c.len - sent]

(* tr_send up to the head of its transfer loop *)
tr_send ==
    /\ backend = "ftdi"
    /\ inst = "live"
    /\ pc = "idle"
    /\ \E n \in StreamSendLens, seed \in SendSeeds :
         LET c == [NewCall("send") EXCEPT !.data = Payload(n, seed), !.len = n] IN
         IF c.len # 0
         THEN /\ call' = c
              /\ pc' = "send"
         ELSE /\ call' = [c EXCEPT !.ret = 0]
              /\ pc' = "idle"
    /\ UNCHANGED <<backend, hist, inst, leaked, stale, lost, handle, ident, rbuf, rbuf_len, rbuf_ptr>>

(* One iteration of the transfer loop of tr_send *)
tr_send_loop ==
    /\ backend = "ftdi"
    /\ pc \in {"send", "send_xfer"}
    /\ IF pc = "send"
       THEN /\ call' = SubmitOut(call)
            /\ pc' = "send_xfer"
       ELSE \E res \in OutResults(call.len) :
         LET c == BulkOut(call, res) IN
         IF res.rc # "OK" /\ res.rc # "TIMEOUT"
         THEN /\ call' = [c EXCEPT !.ret = FAIL]
              /\ pc' = "idle"
         ELSE LET d == tr_send_advance(c, res.n) IN
              IF d.len # 0
              THEN /\ call' = d
                   /\ pc' = "send"
              ELSE /\ call' = [d EXCEPT !.ret = 0]
                   /\ pc' = "idle"
    /\ UNCHANGED <<backend, hist, inst, leaked, stale, lost, handle, ident, rbuf, rbuf_len, rbuf_ptr>>

(* An inbound ftdi transfer of r bytes: 2 status bytes, then payload *)
FtdiData(r) ==
    [i \in 1..r |-> IF i = 1 THEN 1 ELSE IF i = 2 THEN 96 ELSE (200 + i - 2) % 256]

FtdiDatas == {FtdiData(r) : r \in (0..(MaxStreamLen + 2)) \cup {FTDI_PACKET_SIZE}}

FtdiRecvMax == StreamRecvMax \cup {FTDI_PACKET_SIZE}

(* if (max_len > FTDI_PACKET_SIZE - 2) max_len = FTDI_PACKET_SIZE - 2 *)
tr_recv_max_len_Mut(max_len) == max_len

tr_recv_max_len(max_len) ==
    IF max_len > FTDI_PACKET_SIZE - 2 THEN FTDI_PACKET_SIZE - 2 ELSE max_len

(* tr_recv up to its deadline loop: max_len is capped so that prefix    *)
(* and payload fit one packet.                                         *)
tr_recv ==
    /\ backend = "ftdi"
    /\ inst = "live"
    /\ pc = "idle"
    /\ \E max_len \in FtdiRecvMax :
         call' = [NewCall("recv") EXCEPT !.maxlen = tr_recv_max_len(max_len)]
    /\ pc' = "recv"
    /\ UNCHANGED <<backend, hist, inst, leaked, stale, lost, handle, ident, rbuf, rbuf_len, rbuf_ptr>>

tr_recv_payload_Mut(tmpbuf, received) == SubSeq(tmpbuf, 1, received - 2)

(* memcpy(databuf, tmpbuf + 2, received - 2) *)
tr_recv_payload(tmpbuf, received) == SubSeq(tmpbuf, 3, received)

(* One pass of while (time(NULL) < deadline) in tr_recv *)
tr_recv_loop ==
    /\ backend = "ftdi"
    /\ pc = "recv"
    /\ IF ~(call.elapsed < FTDI_TIMEOUT_S)
       THEN /\ call' = [call EXCEPT !.deadlineHit = TRUE, !.ret = FAIL]
            /\ pc' = "idle"
            /\ stale' = stale
       ELSE \E res \in Answers(stale, InResults(call.maxlen + 2, FtdiDatas), 2) :
            \E dt \in Ticks(res.rc, FTDI_TIMEOUT_S) :
              LET c == Later(BulkIn(call, call.maxlen + 2, res), FTDI_TIMEOUT_S, dt)
                  received == Len(res.bytes)
              IN
              /\ stale' = AfterRead(stale, res.bytes, 2)
              /\ IF res.rc # "OK" /\ res.rc # "TIMEOUT"
                 THEN /\ call' = [c EXCEPT !.ret = FAIL]
                      /\ pc' = "idle"
                 ELSE IF res.rc = "OK" /\ received > 2
                 THEN /\ call' = [c EXCEPT !.out = tr_recv_payload(res.bytes, received),
                                           !.ret = received - 2,
                                           !.old = (stale > 0)]
                      /\ pc' = "idle"
                 ELSE /\ call' = c
                      /\ pc' = "recv"
    /\ UNCHANGED <<backend, hist, inst, leaked, lost, handle, ident, rbuf, rbuf_len, rbuf_ptr>>

(* do_cfg on a handle read from a struct that malloc has just returned *)
(* and nothing has written: the transfer is answered with 0 or with an *)
(* error, or the process ends inside it.  Only when the memory happens *)
(* to hold the instance's handle does the request reach its device.    *)
UninitCfg ==
    {[rc |-> 0, hit |-> TRUE, crash |-> FALSE],
     [rc |-> 0, hit |-> FALSE, crash |-> FALSE],
     [rc |-> FAIL, hit |-> FALSE, crash |-> FALSE],
     [rc |-> FAIL, hit |-> FALSE, crash |-> TRUE]}

(* The handle tr_flush and tr_set_modem pass to do_cfg: that of the    *)
(* struct they allocate, not that of tr_base.                          *)
tr_cfg_handle == "uninit"

(* tr_flush: purge RX *)
tr_flush ==
    /\ backend = "ftdi"
    /\ inst = "live"
    /\ pc = "idle"
    /\ \E q \in stale..MaxQueued, res \in UninitCfg :
         /\ call' = [NewCall("flush") EXCEPT
                        !.ctl = [on |-> tr_cfg_handle, req |-> "FTDI_SIO_RESET",
                                 value |-> FTDI_SIO_RESET_PURGE_RX,
                                 rc |-> res.rc],
                        !.ret = IF res.rc # 0 THEN FAIL ELSE 0]
         /\ pc' = IF res.crash THEN "crashed" ELSE "idle"
         /\ stale' = IF res.rc # 0 THEN stale ELSE IF res.hit THEN 0 ELSE q
    /\ UNCHANGED <<backend, hist, inst, leaked, lost, handle, ident, rbuf, rbuf_len, rbuf_ptr>>

(* value of FTDI_SIO_MODEM_CTRL in tr_set_modem: both write-enable     *)
(* bits, and each line bit when the line is NOT requested (active low) *)
tr_modem_value(dtr, rts) ==
    FTDI_WRITE_DTR + FTDI_WRITE_RTS
    + (IF ~dtr THEN FTDI_DTR ELSE 0) + (IF ~rts THEN FTDI_RTS ELSE 0)

tr_set_modem ==
    /\ backend = "ftdi"
    /\ inst = "live"
    /\ pc = "idle"
    /\ \E dtr \in BOOLEAN, rts \in BOOLEAN, res \in UninitCfg :
         /\ call' = [NewCall("set_modem") EXCEPT
                        !.dtr = dtr, !.rts = rts,
                        !.ctl = [on |-> tr_cfg_handle, req |-> "FTDI_SIO_MODEM_CTRL",
                                 value |-> tr_modem_value(dtr, rts),
                                 rc |-> res.rc],
                        !.ret = IF res.rc # 0 THEN FAIL ELSE 0]
         /\ pc' = IF res.crash THEN "crashed" ELSE "idle"
    /\ UNCHANGED <<backend, hist, inst, leaked, stale, lost, handle, ident, rbuf, rbuf_len, rbuf_ptr>>

(* Where ftdi_open can stop: the locator, then open_device (descriptor, *)
(* open, claim, configure_ftdi).                                        *)
FtdiOpenOutcomes ==
    {"not_found", "no_descriptor", "open_failed", "claim_failed",
     "configure_ftdi", "ok"}

ftdi_open_handle_Mut(outcome) ==
    IF outcome \in {"ok", "configure_ftdi"} THEN "open"
    ELSE IF outcome = "claim_failed" THEN "closed"
    ELSE "null"

(* The handle as the open leaves it: open_device closes it when the    *)
(* claim or configure_ftdi fails.                                      *)
ftdi_open_handle(outcome) ==
    IF outcome = "ok" THEN "open"
    ELSE IF outcome \in {"claim_failed", "configure_ftdi"} THEN "closed"
    ELSE "null"

(* The commands of configure_ftdi in the order of its condition *)
configure_ftdi_cmds(baud_rate) ==
    << [req |-> "FTDI_SIO_RESET", value |-> FTDI_SIO_RESET_SIO],
       [req |-> "FTDI_SIO_SET_DATA", value |-> 8],
       [req |-> "FTDI_SIO_SET_FLOW_CTRL", value |-> 0],
       [req |-> "FTDI_SIO_MODEM_CTRL", value |-> 771],
       [req |-> "FTDI_SIO_SET_BAUD_RATE",
        value |-> (FTDI_CLOCK \div baud_rate) % 65536],
       [req |-> "FTDI_SIO_SET_LATENCY_TIMER", value |-> 50],
       [req |-> "FTDI_SIO_RESET", value |-> FTDI_SIO_RESET_PURGE_TX],
       [req |-> "FTDI_SIO_RESET", value |-> FTDI_SIO_RESET_PURGE_RX] >>

do_cfg_Mut(rc) == 0

(* do_cfg: the transfer failed unless libusb returned 0 *)
do_cfg(rc) == IF rc # 0 THEN FAIL ELSE 0

(* The transfers the chain of do_cfg calls joined by || issues from    *)
(* command i on, rcs[j] being what libusb returns for command j: the   *)
(* first do_cfg below 0 ends the evaluation.                           *)
RECURSIVE do_cfg_from(_, _, _)
do_cfg_from(cmds, rcs, i) ==
    IF i > Len(cmds) THEN <<>>
    ELSE <<Cfg(cmds[i].req, cmds[i].value, rcs[i])>>
         \o (IF do_cfg(rcs[i]) < 0 THEN <<>>
             ELSE do_cfg_from(cmds, rcs, i + 1))

(* configure_ftdi: the transfers issued and the return value *)
configure_ftdi(rcs, baud_rate) ==
    LET log == do_cfg_from(configure_ftdi_cmds(baud_rate), rcs, 1) IN
    [cfg |-> log,
     rc |-> IF \E i \in 1..Len(log) : do_cfg(log[i].rc) < 0 THEN FAIL ELSE 0]

ftdi_open ==
    /\ backend = "ftdi"
    /\ inst = "none"
    /\ pc = "idle"
    /\ pc' = "idle"
    /\ \E early \in (FtdiOpenOutcomes \ {"configure_ftdi"}),
          baud_rate \in BaudRates,
          rcs \in [1..Len(configure_ftdi_cmds(9600)) -> ControlRcs] :
         LET claimed == early = "ok"
             conf == IF claimed THEN configure_ftdi(rcs, baud_rate)
                     ELSE [cfg |-> <<>>, rc |-> 0]
             outcome == IF claimed /\ conf.rc < 0 THEN "configure_ftdi"
                        ELSE early
             h == ftdi_open_handle(outcome) IN
         /\ ~claimed => \A i \in DOMAIN rcs : rcs[i] = 0
         /\ leaked > 0 => ~claimed
         /\ call' = [NewCall("open") EXCEPT
                        !.ret = IF outcome = "ok" THEN 0 ELSE FAIL,
                        !.why = outcome, !.held = h,
                        !.cfg = conf.cfg, !.baud = baud_rate]
         /\ inst' = IF outcome = "ok" THEN "live" ELSE "none"
         /\ handle' = IF outcome = "ok" THEN h ELSE "null"
         /\ leaked' = IF outcome = "ok" THEN leaked ELSE leaked + Leak(h)
    /\ UNCHANGED <<backend, hist, stale, lost, ident, rbuf, rbuf_len, rbuf_ptr>>

(* tr_destroy: close the handle, which ends its claim, and free *)
tr_destroy ==
    /\ backend = "ftdi"
    /\ inst = "live"
    /\ pc = "idle"
    /\ pc' = "idle"
    /\ call' = [NewCall("destroy") EXCEPT
                   !.fresh = (call.op = "open" /\ call.ret = 0),
                   !.held = "closed"]
    /\ inst' = "none"
    /\ handle' = "null"
    /\ UNCHANGED <<backend, hist, leaked, stale, lost, ident, rbuf, rbuf_len, rbuf_ptr>>

Next ==
    \/ bslhid_open
    \/ bslhid_destroy
    \/ bslhid_set_modem
    \/ ti3410_open
    \/ ti3410_do_extract
    \/ ti3410_download_firmware
    \/ ti3410_do_download
    \/ ti3410_open_device
    \/ ti3410_setup_port
    \/ ti3410_destroy
    \/ ti3410_flush
    \/ ti3410_set_modem
    \/ cdc_acm_open
    \/ cdc_acm_usbtr_destroy
    \/ cdc_acm_usbtr_set_modem
    \/ cp210x_open
    \/ cp210x_open_loop
    \/ cp210x_usbtr_destroy
    \/ cp210x_usbtr_set_modem
    \/ ftdi_open
    \/ tr_destroy
    \/ tr_flush
    \/ tr_set_modem
    \/ bslhid_send
    \/ bslhid_send_loop
    \/ bslhid_recv
    \/ bslhid_flush
    \/ bslhid_flush_loop
    \/ bslhid_suspend
    \/ bslhid_resume
    \/ ti3410_send
    \/ ti3410_send_loop
    \/ ti3410_recv
    \/ ti3410_recv_loop
    \/ cdc_acm_usbtr_send
    \/ cdc_acm_usbtr_send_loop
    \/ cdc_acm_usbtr_recv
    \/ cdc_acm_usbtr_flush
    \/ cdc_acm_usbtr_flush_loop
    \/ cp210x_usbtr_send
    \/ cp210x_usbtr_send_loop
    \/ cp210x_usbtr_recv
    \/ cp210x_usbtr_recv_loop
    \/ cp210x_usbtr_flush
    \/ cp210x_usbtr_flush_loop
    \/ tr_send
    \/ tr_send_loop
    \/ tr_recv
    \/ tr_recv_loop

Spec == Init /\ [][Next]_vars

(* The caller's thread keeps running and every transfer ends: a send    *)
(* that is inside its transfer loop takes its next step.               *)
SendLoops ==
    \/ bslhid_send_loop
    \/ ti3410_send_loop
    \/ cdc_acm_usbtr_send_loop
    \/ cp210x_usbtr_send_loop
    \/ tr_send_loop

FairSpec == Spec /\ WF_vars(SendLoops)
(* ------------------------------------------------------------------ *)
(* Properties                                                         *)
(* ------------------------------------------------------------------ *)
Returned(b, o) == backend = b /\ pc = "idle" /\ call.op = o

(* C1: a bslhid send of L <= 62 bytes on an open instance issues exactly *)
(* one outbound bulk transfer, of the 64-byte frame: header 0x3F,       *)
(* length L, the payload, then filler 0xAC.                            *)
C1_HidSendOneFrame ==
    (Returned("bslhid", "send") /\ handle = "open" /\ Len(call.data) <= BSLHID_MTU)
        => /\ call.nxfer = 1
           /\ call.last.dir = "out"
           /\ call.last.sub = bslhid_outbuf(call.data)

(* C2: a bslhid send of more than 62 bytes returns failure and issues   *)
(* no USB transfer.                                                    *)
C2_HidSendOverMtuFails ==
    (backend = "bslhid" /\ call.op = "send" /\ Len(call.data) > BSLHID_MTU)
        => /\ pc = "idle"
           /\ call.ret = FAIL
           /\ call.nxfer = 0
           /\ call.last = NoXfer

C2_Witness ==
    /\ Returned("bslhid", "send")
    /\ handle = "open"
    /\ Len(call.data) = BSLHID_MTU + 1
    /\ call.ret = FAIL

(* The inbound transfer of a bslhid recv is not a frame the caller can  *)
(* take: under 2 bytes, wrong header, declared length over max_len or   *)
(* over the bytes received.                                            *)
HidMalformed ==
    \/ call.last.n < 2
    \/ call.last.bytes[1] # BSLHID_HEADER
    \/ call.last.bytes[2] > call.maxlen
    \/ call.last.bytes[2] + 2 > call.last.n

(* C3: bslhid recv returns failure and copies nothing to the caller     *)
(* whenever the inbound transfer is malformed.                         *)
C3_HidRecvRejectsMalformed ==
    (Returned("bslhid", "recv") /\ call.last.dir = "in" /\ HidMalformed)
        => (call.ret = FAIL /\ call.out = <<>>)

C3_Witness ==
    /\ Returned("bslhid", "recv")
    /\ call.last.dir = "in"
    /\ call.last.rc = "OK"
    /\ call.last.n >= 2
    /\ call.last.bytes[1] = BSLHID_HEADER
    /\ call.last.bytes[2] <= call.maxlen
    /\ call.last.bytes[2] + 2 > call.last.n
    /\ call.ret = FAIL

(* C4: bslhid recv of a well-formed frame of declared length L returns  *)
(* L and delivers exactly frame bytes 2..2+L-1, never a filler byte.   *)
C4_HidRecvDeliversPayload ==
    (Returned("bslhid", "recv") /\ call.last.dir = "in"
        /\ call.last.rc # "ERR" /\ ~HidMalformed)
        => /\ call.ret = call.last.bytes[2]
           /\ call.out = SubSeq(call.last.bytes, 3, 2 + call.last.bytes[2])
           /\ \A i \in 1..Len(call.out) : call.out[i] # BSLHID_FILL

C4_Witness ==
    /\ Returned("bslhid", "recv")
    /\ call.last.dir = "in"
    /\ call.last.n = BSLHID_XFER_SIZE
    /\ ~HidMalformed
    /\ call.ret = 2
    /\ call.last.bytes[5] = BSLHID_FILL
    /\ call.out = <<1, 2>>
StreamBackends == {"ti3410", "cdc_acm", "cp210x", "ftdi"}

(* C5: in ti3410, cdc_acm, cp210x and ftdi every outbound transfer of a *)
(* send starts at the first byte the device has not accepted yet, and   *)
(* when send returns success the accepted bytes, in order, are exactly  *)
(* the caller's buffer.                                                *)
C5_SendDeliversBuffer ==
    (backend \in StreamBackends /\ call.op = "send")
        => /\ call.last.dir = "out" =>
                call.last.sub = SubSeq(call.data, Len(call.wire) - call.last.n + 1,
                                       Len(call.data))
           /\ (pc = "idle" /\ call.ret = 0) => call.wire = call.data

C5_Witness ==
    /\ Returned("ftdi", "send")
    /\ call.ret = 0
    /\ Len(call.data) = MaxStreamLen
    /\ call.nxfer >= 2
    /\ call.last.size < Len(call.data)
    /\ call.wire = call.data

(* C6: recv never reports success with zero bytes: it returns failure   *)
(* or at least one byte.                                               *)
C6_RecvNeverZero ==
    (pc = "idle" /\ call.op = "recv") => (call.ret = FAIL \/ call.ret >= 1)

(* C7: a recv whose inbound transfer timed out without data reports     *)
(* failure only after its own deadline has elapsed.                    *)
C7_RecvTimeoutRetried ==
    (pc = "idle" /\ call.op = "recv" /\ call.ret = FAIL
        /\ call.last.dir = "in" /\ call.last.rc = "TIMEOUT" /\ call.last.n = 0)
        => call.deadlineHit

(* C8: in send and recv, a transfer that ended in an error other than   *)
(* timeout is the last transfer of the call, and the call has returned  *)
(* failure.                                                            *)
C8_FatalErrorEndsCall ==
    (call.op \in {"send", "recv"} /\ call.last.rc = "ERR")
        => (pc = "idle" /\ call.ret = FAIL)

C8_Witness ==
    /\ Returned("ti3410", "recv")
    /\ call.last.dir = "in"
    /\ call.last.rc = "ERR"
    /\ call.nxfer >= 2
    /\ call.ret = FAIL

(* C9: every send returns: one that is inside its transfer loop leaves  *)
(* it, also when the device accepts no byte and every transfer times    *)
(* out.                                                                *)
C9_SendTerminates == (pc \in {"send", "send_xfer"}) ~> (pc = "idle")

(* C10: the drain loop of flush goes on only while inbound reads        *)
(* succeed: a flush that is still in its loop after a read has seen     *)
(* that read succeed.                                                  *)
C10_FlushEndsAtFailedRead ==
    (pc = "flush" /\ call.nxfer >= 1) => call.last.rc = "OK"

(* ------------------------------------------------------------------ *)
(* Flush, modem lines, open and destroy, suspend and resume            *)
(* ------------------------------------------------------------------ *)

(* C11: once a flush has returned, on any backend, no recv returns a   *)
(* byte that was queued at the device, or held in the local read       *)
(* buffer, before that flush began, however many were queued.          *)
C11_FlushDiscardsQueued ==
    /\ (pc = "idle" /\ call.op = "recv" /\ call.ret > 0) => ~call.old
    /\ Returned("cdc_acm", "flush") => rbuf_ptr >= rbuf_len

(* C12: the control transfer of ftdi flush and set_modem is issued on  *)
(* the handle of the instance the caller passed, never on the handle   *)
(* field of a struct that was allocated and not written.               *)
C12_FtdiCfgOnInstanceHandle ==
    (backend = "ftdi" /\ call.op \in {"flush", "set_modem"} /\ call.ctl.on # "none")
        => call.ctl.on = "instance"

(* C13: for every (dtr, rts), the value cp210x and ftdi set_modem pass *)
(* to the control transfer has both write-enable bits 0x0100 and       *)
(* 0x0200 set, bit 0x0001 set exactly when dtr is not requested, bit   *)
(* 0x0002 set exactly when rts is not requested, and no other bit;     *)
(* set_modem(dtr=1, rts=1) sends 0x0300.                               *)
C13_ModemValueInverted ==
    (backend \in {"cp210x", "ftdi"} /\ call.op = "set_modem") =>
        LET v == call.ctl.value IN
        /\ (v \div 256) % 2 = 1
        /\ (v \div 512) % 2 = 1
        /\ (v % 2 = 1) <=> ~call.dtr
        /\ ((v \div 2) % 2 = 1) <=> ~call.rts
        /\ v \div 1024 = 0
        /\ (v % 256) \div 4 = 0
        /\ (call.dtr /\ call.rts) => v = 768

C13_Witness ==
    /\ Returned("cp210x", "set_modem")
    /\ call.dtr /\ call.rts
    /\ call.ctl.on = "instance"
    /\ call.ctl.value = 768
    /\ call.ret = 0

(* C14: set_modem of the HID and the TI3410 backend never returns      *)
(* success, issues no USB transfer and leaves the instance as it was.  *)
C14_SetModemUnsupported ==
    [][(backend \in {"bslhid", "ti3410"} /\ call'.op = "set_modem" /\ call' # call)
         => /\ call'.ret = FAIL
            /\ call'.nxfer = 0
            /\ call'.wire = <<>>
            /\ call'.ctl = NoCtl
            /\ UNCHANGED <<inst, handle, leaked, stale, lost, ident,
                           rbuf, rbuf_len, rbuf_ptr, hist>>]_vars

C14_Witness ==
    /\ Returned("ti3410", "set_modem")
    /\ call.dtr /\ ~call.rts
    /\ call.ret = FAIL
    /\ handle = "open"

(* C15: ftdi recv, after a successful inbound transfer of N + 2 bytes  *)
(* with 1 <= N <= min(max_len, 62), returns N with the caller's buffer *)
(* holding bytes 2..N+1 of the transfer; after a transfer of the 2     *)
(* status bytes alone it returns no data and polls on until its        *)
(* deadline.                                                           *)
C15_FtdiRecvStripsStatus ==
    (backend = "ftdi" /\ call.op = "recv" /\ call.last.dir = "in"
     /\ call.last.rc = "OK") =>
        LET n == call.last.n IN
        IF n > 2
        THEN /\ pc = "idle"
             /\ call.ret = n - 2
             /\ call.ret <= call.maxlen
             /\ call.ret <= FTDI_PACKET_SIZE - 2
             /\ call.out = [i \in 1..(n - 2) |-> call.last.bytes[i + 2]]
        ELSE \/ pc = "recv"
             \/ pc = "idle" /\ call.deadlineHit /\ call.ret = FAIL

C15_Witness ==
    /\ Returned("ftdi", "recv")
    /\ call.nxfer >= 2
    /\ call.last.n = FTDI_PACKET_SIZE
    /\ call.ret = FTDI_PACKET_SIZE - 2
    /\ Len(call.out) = FTDI_PACKET_SIZE - 2

(* C16: on every backend, a destroy that follows a successful open     *)
(* leaves no interface claimed and no handle open.                     *)
C16_DestroyAfterOpenReleasesAll ==
    (pc = "idle" /\ call.op = "destroy" /\ call.fresh) =>
        (inst = "none" /\ call.held \notin {"open", "unclaimed"} /\ leaked = 0)

(* C17: on every backend and at every step where it can fail, a failed *)
(* open returns no instance and leaves no interface claimed and no     *)
(* handle open.                                                        *)
C17_FailedOpenLeavesNothing ==
    (call.op = "open" /\ call.ret = FAIL) =>
        /\ inst = "none"
        /\ handle = "null"
        /\ call.held \notin {"open", "unclaimed"}

C17_Witness ==
    /\ Returned("ftdi", "open")
    /\ call.why = "configure_ftdi"
    /\ call.ret = FAIL
    /\ call.held = "closed"
    /\ inst = "none"

(* C18: in every state the HID instance reaches by open, send, recv,   *)
(* flush, suspend and resume, failing resumes included, its handle is  *)
(* null or an open handle with the interface claimed, never a handle   *)
(* that was closed.                                                    *)
C18_HidHandleNullOrOpen ==
    (backend = "bslhid" /\ inst = "live") => handle \in {"null", "open"}

(* C19: a HID instance opened by location or by serial number, once    *)
(* suspended, resumes when the device is still present at that         *)
(* identity: resume returns 0 and leaves the handle open and claimed.  *)
C19_HidResumeWhilePresent ==
    (Returned("bslhid", "resume") /\ call.present
     /\ call.why \in {"ok", "not_found"})
        => (call.ret = 0 /\ handle = "open")

(* C20: a HID resume whose locator finds no device returns failure and *)
(* leaves the handle null, and from then on every send and recv fails  *)
(* without a transfer, until the instance is destroyed or a resume     *)
(* succeeds.                                                           *)
C20_HidLostStaysUnusable ==
    /\ (Returned("bslhid", "resume") /\ call.why = "not_found")
           => (call.ret = FAIL /\ handle = "null")
    /\ (backend = "bslhid" /\ lost /\ call.op \in {"send", "recv"})
           => (pc = "idle" /\ call.ret = FAIL /\ call.nxfer = 0)

(* ------------------------------------------------------------------ *)
(* Firmware of the TI3410 and its bring-up                             *)
(* ------------------------------------------------------------------ *)
RECURSIVE Concat(_)
Concat(ss) == IF ss = <<>> THEN <<>> ELSE Head(ss) \o Concat(Tail(ss))

RECURSIVE SumOf(_)
SumOf(bytes) ==
    IF bytes = <<>> THEN 0
    ELSE IF Len(bytes) = 1 THEN bytes[1]
    ELSE LET mid == Len(bytes) \div 2 IN
         SumOf(SubSeq(bytes, 1, mid)) + SumOf(SubSeq(bytes, mid + 1, Len(bytes)))

(* Position of the first and of the last entry of a log with a name,   *)
(* 0 when there is none                                                *)
First(log, name) ==
    IF \E i \in 1..Len(log) : log[i].name = name
    THEN CHOOSE i \in 1..Len(log) :
            /\ log[i].name = name
            /\ \A j \in 1..(i - 1) : log[j].name # name
    ELSE 0

Last(log, name) ==
    IF \E i \in 1..Len(log) : log[i].name = name
    THEN CHOOSE i \in 1..Len(log) :
            /\ log[i].name = name
            /\ \A j \in (i + 1)..Len(log) : log[j].name # name
    ELSE 0

InOpen(b) == backend = b /\ call.op = "open"

(* The part of the log of a ti3410_open that setup_port wrote *)
BringUp ==
    IF First(call.steps, "open_device") = 0 THEN <<>>
    ELSE SubSeq(call.steps, First(call.steps, "open_device") + 1, Len(call.steps))

BringUpStarted == BringUp # <<>>

(* C21: the decoder's chunk is accepted only if its address is the     *)
(* number of bytes accumulated so far (0 for the first); a chunk at    *)
(* any other address fails the load at once and leaves the image as it *)
(* was, nothing zero-filled; the image is always the data of the       *)
(* accepted chunks concatenated in order.                              *)
C21_ChunksContiguous ==
    /\ []((backend = "ti3410" /\ pc = "fw_load")
            => /\ call.fw.buf = Concat(call.acc)
               /\ call.fw.size = Len(call.fw.buf))
    /\ [][(backend = "ti3410" /\ pc = "fw_load" /\ call'.nchunk = call.nchunk + 1)
            => LET ch == call'.chunk IN
               /\ pc' = "fw_load"
                    => /\ ch.addr = call.fw.size
                       /\ call'.fw.buf = call.fw.buf \o ChunkData(ch)
               /\ ch.addr # call.fw.size
                    => /\ pc' = "idle"
                       /\ call'.ret = FAIL
                       /\ call'.why = "fw_load"
                       /\ inst' = "none"
                       /\ call'.fw = call.fw]_vars

(* chunk (0,4) accepted, then chunk (8,4) refused *)
C21_Witness ==
    /\ Returned("ti3410", "open")
    /\ call.why = "fw_load"
    /\ call.nchunk = 2
    /\ call.fw.buf = Payload(4, 0)
    /\ call.chunk.addr = 8
    /\ call.chunk.len = 4

Prepared == InOpen("ti3410") /\ First(call.steps, "prepare_firmware") > 0

Pushed == InOpen("ti3410") /\ First(call.steps, "push") > 0

(* C22: for a finished firmware image of total length T, byte 0 is     *)
(* (T-3) mod 256, byte 1 is (T-3) div 256 and byte 2 is the sum        *)
(* modulo 256 of the bytes at offsets 3..T-1.                          *)
C22_HeaderBytes ==
    Prepared
        => LET T == call.fw.size IN
           /\ FwByte(call.fw, 0) = (T - 3) % 256
           /\ FwByte(call.fw, 1) = (T - 3) \div 256
           /\ FwByte(call.fw, 2) = SumOf(SubSeq(call.fw.buf, 4, T)) % 256

(* C23 as stated: the image pushed is a 3-byte header followed by      *)
(* every accumulated byte: its length is the accumulated length plus   *)
(* 3, its length field is the accumulated length, and the accumulated  *)
(* bytes follow the header unchanged.                                  *)
C23_HeaderPrepended ==
    Pushed
        => LET a == Concat(call.acc) IN
           /\ Len(call.image) = Len(a) + 3
           /\ FwByte(call.fw, 0) + 256 * FwByte(call.fw, 1) = Len(a)
           /\ SubSeq(call.image, 4, Len(call.image)) = a

(* C23 amended: the image pushed is the accumulated image with its     *)
(* first three bytes replaced by the header: its length is the         *)
(* accumulated length, its length field is the accumulated length      *)
(* minus 3 modulo 65536, and every accumulated byte at offset 3 or     *)
(* beyond is pushed unchanged at its offset.                           *)
C23_HeaderOverwritesFirstThree ==
    Pushed
        => LET a == Concat(call.acc) IN
           /\ Len(call.image) = Len(a)
           /\ FwByte(call.fw, 0) + 256 * FwByte(call.fw, 1) = (Len(a) - 3) % 65536
           /\ \A i \in 4..Len(a) : call.image[i] = a[i]

C23_Witness ==
    /\ Pushed
    /\ call.acc = <<Payload(4, 100), Payload(4, 0)>>
    /\ Len(call.image) = 8
    /\ call.image[1] = 5
    /\ call.image[4] = 104

(* C24: open pushes firmware exactly when the located device reports   *)
(* its boot configuration; when a push is needed, bring-up starts only *)
(* after the push, the device reset, the settling delay and a          *)
(* successful new resolution of the device, in that order; a failed    *)
(* push or a failed re-resolution fails the open; and an instance is   *)
(* returned only after bring-up has completed successfully.            *)
C24_FirmwareBeforeBringUp ==
    InOpen("ti3410")
        => LET log == call.steps IN
           /\ First(log, "push") > 0 => call.nconf = 1
           /\ (BringUpStarted /\ call.nconf = 1)
                => /\ 0 < First(log, "push")
                   /\ First(log, "push") < First(log, "reset")
                   /\ First(log, "reset") < First(log, "delay_s")
                   /\ First(log, "delay_s") < Last(log, "locate")
                   /\ log[Last(log, "locate")].rc = 0
                   /\ Last(log, "locate") < First(log, "open_device")
           /\ call.why \in {"fw_load", "fw_descriptor", "fw_open", "fw_claim",
                            "fw_bulk", "fw_not_found"}
                => /\ call.ret = FAIL
                   /\ inst = "none"
                   /\ ~BringUpStarted
           /\ (pc = "idle" /\ inst = "live")
                => /\ call.ret = 0
                   /\ BringUpStarted
                   /\ BringUp[Len(BringUp)].name = "TI_START_PORT"
                   /\ \A i \in 1..Len(BringUp) : BringUp[i].rc = 0

(* an instance returned for a device that needed the firmware *)
C24_Witness ==
    /\ Returned("ti3410", "open")
    /\ call.ret = 0
    /\ inst = "live"
    /\ call.nconf = 1
    /\ Len(call.image) = 6

(* The commands of the bring-up as the specification lists them *)
BringUpAsSpecified ==
    <<"set_termios", "set_mcr", "TI_OPEN_PORT", "TI_START_PORT",
      "TI_PURGE_INPUT", "interrupt_flush", "interrupt_flush",
      "TI_PURGE_OUTPUT", "interrupt_flush",
      "clear_halt_in", "clear_halt_out",
      "set_termios", "set_mcr", "TI_OPEN_PORT", "TI_START_PORT">>

(* C25 as stated: on a successful open the bring-up issued, in this    *)
(* order and nothing else: set line parameters, set modem-control      *)
(* bits, open port, start port, purge input, two interrupt-endpoint    *)
(* flushes, purge output, one interrupt-endpoint flush, clear halt on  *)
(* bulk-in then bulk-out, then again set line parameters, set          *)
(* modem-control bits, open port, start port.                          *)
C25_BringUpOrder ==
    (Returned("ti3410", "open") /\ call.ret = 0)
        => Names(BringUp) = BringUpAsSpecified

(* C25 amended: the bring-up begins with one interrupt-endpoint flush, *)
(* and then issues the commands in the order stated; the second        *)
(* open/start sub-sequence is never skipped on a successful open.      *)
C25_BringUpOrderAfterFlush ==
    (Returned("ti3410", "open") /\ call.ret = 0)
        => Names(BringUp) = <<"interrupt_flush">> \o BringUpAsSpecified

C25_Witness ==
    /\ Returned("ti3410", "open")
    /\ call.ret = 0
    /\ call.nconf = 2
    /\ Len(BringUp) = 16
    /\ handle = "open"

(* C26: if a control transfer of the bring-up (set line parameters,    *)
(* modem-control write, open port, start port, purge input, purge      *)
(* output) or a clear-halt fails, no later step of the bring-up is     *)
(* issued and the open returns failure with no instance.               *)
C26_BringUpStopsAtFailure ==
    InOpen("ti3410")
        => \A j \in 1..Len(BringUp) :
              (BringUp[j].name # "interrupt_flush" /\ BringUp[j].rc < 0)
                 => /\ j = Len(BringUp)
                    /\ pc = "idle"
                    /\ call.ret = FAIL
                    /\ inst = "none"
                    /\ handle = "null"

(* the purge of the output fails *)
C26_Witness ==
    /\ Returned("ti3410", "open")
    /\ call.ret = FAIL
    /\ call.why = "setup_port"
    /\ Len(BringUp) = 9
    /\ BringUp[9] = Step("TI_PURGE_OUTPUT", FAIL)
    /\ inst = "none"

(* What libusb returns for a step that transferred all of its data *)
Transferred(name) ==
    IF name = "CDC_SET_LINE_CODING" THEN CDC_LINE_CODING_SIZE
    ELSE setup_port_payload(name)

(* Every USB call of the open has completed successfully: the opens    *)
(* that log their control transfers show each with all of its data     *)
(* transferred, and the open did not stop at a call that failed.       *)
OpenUsbOk ==
    /\ call.why \in {"ok", "setup_port", "configure_port"}
    /\ \A i \in 1..Len(call.steps) :
          call.steps[i].rc = Transferred(call.steps[i].name)

(* C27: for each backend, if the locator finds the device and every    *)
(* USB call during open completes successfully (control transfers      *)
(* reporting their whole payload of 7, 9 or 10 bytes as transferred),  *)
(* open returns a usable instance.                                     *)
C27_OpenSucceedsWhenUsbSucceeds ==
    (pc = "idle" /\ call.op = "open" /\ OpenUsbOk)
        => /\ call.ret = 0
           /\ inst = "live"

(* ------------------------------------------------------------------ *)
(* C28: after any sequence of CDC-ACM open, recv (successful, timed    *)
(* out or failed) and flush, the read cursor is at least 0 and at most *)
(* the valid length, and the valid length is at most the size of the   *)
(* read buffer (1024).                                                 *)
C28_CdcBufferBounds ==
    backend = "cdc_acm"
        => /\ 0 <= rbuf_ptr
           /\ rbuf_ptr <= rbuf_len
           /\ rbuf_len <= READ_BUFFER_SIZE

(* a recv that asked for more than the buffer held, after a refill *)
C28_Witness ==
    /\ Returned("cdc_acm", "recv")
    /\ call.nxfer = 1
    /\ call.maxlen = 3
    /\ call.ret = 2
    /\ rbuf_ptr = 2
    /\ rbuf_len = 2

(* ------------------------------------------------------------------ *)
(* C29: CDC-ACM recv issues an inbound transfer only when every        *)
(* buffered byte has been handed out; otherwise it returns             *)
(* min(len, remaining) bytes of the buffer and no transfer is made.    *)
(* So, as long as no transfer has failed and no flush has run, the     *)
(* bytes returned by all recv calls followed by the bytes still in the *)
(* buffer are the data of the inbound transfers, concatenated in order.*)
C29_CdcRecvRefinesStream ==
    /\ [](backend = "cdc_acm" /\ hist.on
            => hist.given \o SubSeq(rbuf, rbuf_ptr + 1, rbuf_len) = hist.xfers)
    /\ [][(backend = "cdc_acm" /\ call'.op = "recv" /\ call' # call)
            => IF rbuf_ptr >= rbuf_len
               THEN call'.nxfer = 1
               ELSE /\ call'.nxfer = 0
                    /\ call'.ret = Min(call'.maxlen, rbuf_len - rbuf_ptr)
                    /\ call'.out = SubSeq(rbuf, rbuf_ptr + 1, rbuf_ptr + call'.ret)]_vars

(* two transfers, the first handed out by two calls *)
C29_Witness ==
    /\ Returned("cdc_acm", "recv")
    /\ hist.on
    /\ Len(hist.xfers) = 5
    /\ hist.given = InBytes(3) \o InBytes(1)
    /\ call.nxfer = 1
    /\ rbuf_ptr = 1
    /\ rbuf_len = 2

(* ------------------------------------------------------------------ *)
(* C30: a CDC-ACM recv that fails on a transfer error other than a     *)
(* timeout leaves the read buffer empty: the cursor equals the valid   *)
(* length, so that bytes handed out before are not handed out again.   *)
C30_CdcFailedRecvEmptiesBuffer ==
    (Returned("cdc_acm", "recv") /\ call.ret = FAIL) => rbuf_ptr = rbuf_len

(* ------------------------------------------------------------------ *)
(* C31: FTDI recv never discards payload it has read from the device:  *)
(* when an inbound transfer reports a timeout but carried more than 2  *)
(* bytes, the bytes after the 2-byte prefix are returned to the caller *)
(* instead of being dropped while recv keeps polling.                  *)
C31_FtdiRecvKeepsTimedOutPayload ==
    (/\ backend = "ftdi"
     /\ call.op = "recv"
     /\ call.last.dir = "in"
     /\ call.last.rc = "TIMEOUT"
     /\ call.last.n > 2)
        => /\ pc = "idle"
           /\ call.ret = call.last.n - 2
           /\ call.out = SubSeq(call.last.bytes, 3, call.last.n)

(* ------------------------------------------------------------------ *)
(* C32: in every backend recv neither returns nor writes into the      *)
(* caller's buffer more than max_len bytes: the transfers that the     *)
(* TI3410 and the CP210x backend read straight into the caller's       *)
(* buffer ask for max_len bytes, HID rejects a declared length above   *)
(* max_len, FTDI caps the logical read at 62 bytes and asks for        *)
(* max_len + 2 (at most 64) physical bytes, and CDC-ACM copies no more *)
(* than is asked for and than its buffer holds.                        *)
C32_RecvWithinMaxLen ==
    call.op = "recv"
        => /\ call.ret <= call.maxlen
           /\ Len(call.out) <= call.maxlen
           /\ (backend \in {"ti3410", "cp210x"} /\ call.last.dir = "in")
                => /\ call.last.size = call.maxlen
                   /\ call.last.n <= call.maxlen
           /\ backend = "ftdi"
                => /\ call.maxlen <= FTDI_PACKET_SIZE - 2
                   /\ call.last.dir = "in"
                        => /\ call.last.size = call.maxlen + 2
                           /\ call.last.size <= FTDI_PACKET_SIZE
                           /\ call.last.n <= call.last.size

(* an FTDI recv asked for a whole packet and given one *)
C32_Witness ==
    /\ Returned("ftdi", "recv")
    /\ call.last.size = FTDI_PACKET_SIZE
    /\ call.last.n = FTDI_PACKET_SIZE
    /\ call.ret = FTDI_PACKET_SIZE - 2
    /\ Len(call.out) = FTDI_PACKET_SIZE - 2

(* ------------------------------------------------------------------ *)
(* C33: the firmware download sends the image in order in packets of   *)
(* at most 64 bytes, each packet starting at the first byte the device *)
(* has not accepted yet; the device reset is issued only after the     *)
(* whole image has been accepted; a bulk error other than a timeout    *)
(* ends the download with the boot loader's handle closed and no reset *)
(* issued.                                                             *)
C33_DownloadInOrder ==
    /\ []((InOpen("ti3410") /\ (pc = "fw_download" \/ call.why = "fw_bulk" \/ Pushed))
            => /\ call.wire = SubSeq(call.image, 1, Len(call.wire))
               /\ First(call.steps, "reset") > 0 => call.wire = call.image
               /\ call.why = "fw_bulk"
                    => /\ pc = "idle"
                       /\ call.ret = FAIL
                       /\ inst = "none"
                       /\ call.held = "closed"
                       /\ First(call.steps, "reset") = 0)
    /\ [][(backend = "ti3410" /\ pc = "fw_download" /\ Len(call.wire) < Len(call.image))
            => LET sent == call'.last.sub IN
               /\ call'.last.dir = "out"
               /\ Len(sent) <= TI_DOWNLOAD_MAX_PACKET_SIZE
               /\ Len(sent) = Min(TI_DOWNLOAD_MAX_PACKET_SIZE,
                                  Len(call.image) - Len(call.wire))
               /\ sent = SubSeq(call.image, Len(call.wire) + 1,
                                Len(call.wire) + Len(sent))
               /\ First(call'.steps, "reset") = 0]_vars

(* an image of 70 bytes pushed, a packet of 64 accepted by half *)
C33_Witness ==
    /\ backend = "ti3410"
    /\ pc = "fw_download"
    /\ Len(call.image) = LongChunkLen
    /\ call.wire = call.image
    /\ call.nxfer = 3
    /\ call.last.size = LongChunkLen - TI_DOWNLOAD_MAX_PACKET_SIZE

(* ------------------------------------------------------------------ *)
(* C34: the FTDI bring-up issues its control commands in the order     *)
(* reset, data format 8 bits, flow control off, modem control, baud    *)
(* divisor (3000000 div baud), latency timer, purge TX, purge RX; the  *)
(* first command that fails is the last one issued, and the open fails *)
(* then; an open that succeeds has issued all eight.                   *)
C34_FtdiBringUpOrder ==
    (InOpen("ftdi") /\ call.cfg # <<>>)
        => LET order == << <<"FTDI_SIO_RESET", 0>>,
                           <<"FTDI_SIO_SET_DATA", 8>>,
                           <<"FTDI_SIO_SET_FLOW_CTRL", 0>>,
                           <<"FTDI_SIO_MODEM_CTRL", 771>>,
                           <<"FTDI_SIO_SET_BAUD_RATE", 3000000 \div call.baud>>,
                           <<"FTDI_SIO_SET_LATENCY_TIMER", 50>>,
                           <<"FTDI_SIO_RESET", 2>>,
                           <<"FTDI_SIO_RESET", 1>> >>
               n == Len(call.cfg)
           IN
           /\ n <= Len(order)
           /\ \A i \in 1..n :
                 <<call.cfg[i].req, call.cfg[i].value>> = order[i]
           /\ \A i \in 1..(n - 1) : call.cfg[i].rc = 0
           /\ call.cfg[n].rc # 0
                => /\ call.ret = FAIL
                   /\ inst = "none"
                   /\ handle = "null"
                   /\ call.held = "closed"
           /\ call.ret = 0
                => /\ n = Len(order)
                   /\ call.cfg[n].rc = 0
                   /\ inst = "live"

(* the baud divisor was refused: five commands issued, open failed *)
C34_Witness ==
    /\ InOpen("ftdi")
    /\ Len(call.cfg) = 5
    /\ call.cfg[5].req = "FTDI_SIO_SET_BAUD_RATE"
    /\ call.cfg[5].value = 312
    /\ call.cfg[5].rc = FAIL
    /\ call.ret = FAIL

C36_FirmwareSearchOrder ==
    (InOpen("ti3410") /\ call.search.done)
        => LET sr == call.search
               cands == IF sr.env THEN <<"env", "lib", "cwd">> ELSE <<"lib", "cwd">>
               n == Len(sr.tried)
           IN
           /\ n >= 1
           /\ n <= Len(cands)
           /\ sr.tried = SubSeq(cands, 1, n)
           /\ \A i \in 1..(n - 1) : ~sr.can[sr.tried[i]]
           /\ IF \E i \in 1..Len(cands) : sr.can[cands[i]]
              THEN /\ sr.file = sr.tried[n]
                   /\ sr.can[sr.file]
              ELSE /\ sr.file = "none"
                   /\ sr.tried = cands
           /\ sr.file = "none"
                => /\ pc = "idle"
                   /\ call.ret = FAIL
                   /\ call.why = "fw_load"

(* the variable is set but its file cannot be opened, the installed    *)
(* file neither, the one in the current directory can                  *)
C36_Witness ==
    /\ backend = "ti3410"
    /\ pc = "fw_load"
    /\ call.search.done
    /\ call.search.env
    /\ call.search.tried = <<"env", "lib", "cwd">>
    /\ call.search.file = "cwd"

(* ------------------------------------------------------------------ *)
(* C37: on a suspended HID instance (handle null) send and recv return *)
(* failure, flush and destroy complete and suspend returns success,    *)
(* none of them with a USB operation on the released handle; resume on *)
(* an instance that is not suspended returns success without locating  *)
(* the device or opening and claiming it again.                        *)
C37_SuspendedHidIsInert ==
    [][(backend = "bslhid" /\ inst = "live" /\ pc = "idle")
        => LET quiet == /\ call'.nxfer = 0
                        /\ call'.steps = <<>>
                        /\ call'.wire = <<>>
                        /\ pc' = "idle"
                        /\ handle' = handle
           IN
           /\ (handle = "null" /\ call'.op \in {"send", "recv"})
                => quiet /\ call'.ret = FAIL /\ call'.out = <<>>
           /\ (handle = "null" /\ call'.op \in {"flush", "suspend"})
                => quiet /\ call'.ret = 0
           /\ (handle = "null" /\ call'.op = "destroy")
                => quiet /\ inst' = "none"
           /\ (handle # "null" /\ call'.op = "resume")
                => quiet /\ call'.ret = 0 /\ call'.why = "none"]_vars

(* a recv on a suspended instance has failed *)
C37_Witness ==
    /\ backend = "bslhid"
    /\ inst = "live"
    /\ handle = "null"
    /\ pc = "idle"
    /\ call.op = "recv"
    /\ call.ret = FAIL
    /\ call.nxfer = 0

(* ------------------------------------------------------------------ *)
(* C38: the length field of the firmware header never wraps around:    *)
(* the header is computed, and a download attempted, only for an       *)
(* accumulated image of at least 3 bytes, so that the length minus 3   *)
(* is not negative and is what the field holds.                        *)
C38_HeaderLengthNoWrap ==
    Prepared
        => /\ call.fw.size >= 3
           /\ FwByte(call.fw, 0) + 256 * FwByte(call.fw, 1) = call.fw.size - 3
====
